------------------------------ MODULE Spec2Model ------------------------------
(***************************************************************************)
(* DeskJarvis orchestration kernel.                                        *)
(*                                                                         *)
(*   - agent/orchestrator/plan_executor.py : PlanExecutor (execute_plan,   *)
(*     _execute_step_with_retry, _replace_placeholders,                    *)
(*     _dispatch_execution)                                                *)
(*   - agent/server.py : the stdin/stdout command loop (main)              *)
(*                                                                         *)
(* Spec       : one call of PlanExecutor.execute_plan; the executors, the  *)
(*              Reflector and the context's _check_stop callable are the   *)
(*              environment.                                               *)
(* SpecServer : the command loop of server.py running execute_plan inside  *)
(*              its execute handler, with a host writing lines on stdin.   *)
(***************************************************************************)
EXTENDS Integers, Sequences, FiniteSets, TLC

(***************************************************************************)
(* Bounds of the model.                                                    *)
(***************************************************************************)
\* polls of the sensitive gate before the 30 s window closes (30 s / 0.5 s in the code)
MaxPolls == 2
\* lines the host writes on stdin in one run of the server
MaxLines == 3

(***************************************************************************)
(* Program constants.                                                      *)
(***************************************************************************)
\* execute_plan(..., max_attempts: int = 3)
max_attempts == 3

NULL_ID == "NULL_ID"

(***************************************************************************)
(* JSON-like values.  A node is a None, a string, a dict or a list.        *)
(***************************************************************************)
NoneV == [t |-> "none", s |-> "", kids |-> <<>>]
StrV(x) == [t |-> "str", s |-> x, kids |-> <<>>]
DictV(f) == [t |-> "dict", s |-> "", kids |-> f]
ListV(q) == [t |-> "list", s |-> "", kids |-> q]

\* dict.get(key): None when the key is missing
DictGet(node, key) ==
    IF key \in DOMAIN node.kids THEN node.kids[key] ELSE NoneV

\* list[idx] inside try/except IndexError: None when out of range (0-based)
ListAt(node, idx) ==
    IF idx + 1 \in DOMAIN node.kids THEN node.kids[idx + 1] ELSE NoneV

(***************************************************************************)
(* Paths of placeholders.  A path is a sequence of parts (path.split('.')) *)
(* and a part is a key, optionally followed by [idx]; n is int(key) when   *)
(* the key is a digit string and -1 otherwise; idx is -1 without [idx].    *)
(***************************************************************************)
Part(key, n, idx) == [key |-> key, n |-> n, idx |-> idx]

PathParts(path) ==
    CASE path = "id" -> << Part("id", -1, -1) >>
      [] path = "missing" -> << Part("missing", -1, -1) >>
      [] path = "emails[0].id" -> << Part("emails", -1, 0), Part("id", -1, -1) >>
      [] path = "emails[1].id" -> << Part("emails", -1, 1), Part("id", -1, -1) >>
      [] path = "emails.0.id" ->
            << Part("emails", -1, -1), Part("0", 0, -1), Part("id", -1, -1) >>
      [] path = "result.emails[0].id" ->
            << Part("result", -1, -1), Part("emails", -1, 0), Part("id", -1, -1) >>
      [] OTHER -> << Part(path, -1, -1) >>

\* one iteration of the loop of get_deep_value; "abort" stands for `return None`
WalkPart(current, part) ==
    IF part.idx >= 0
    THEN LET first == IF current.t = "dict" THEN DictGet(current, part.key)
                      ELSE IF current.t = "list" /\ part.n >= 0
                           THEN ListAt(current, part.n)
                           ELSE NoneV
         IN IF first.t = "list" THEN ListAt(first, part.idx) ELSE NoneV
    ELSE IF current.t = "dict" THEN DictGet(current, part.key)
         ELSE IF current.t = "list" /\ part.n >= 0 THEN ListAt(current, part.n)
              ELSE NoneV

RECURSIVE Walk(_, _)
Walk(current, parts) ==
    IF parts = <<>> THEN current
    ELSE IF current.t = "none" THEN NoneV
         ELSE Walk(WalkPart(current, Head(parts)), Tail(parts))

\* get_deep_value(obj, path)
get_deep_value(obj, path) ==
    IF obj.t = "none" THEN NoneV ELSE Walk(obj, PathParts(path))

\* str(extracted_value): a string is itself, anything else its repr
StrOf(node) == IF node.t = "str" THEN node.s ELSE "<repr>"

(***************************************************************************)
(* Strings of params.  A string is a sequence of atoms: a literal chunk,   *)
(* or a token {{step<num>.<path>}} with <num> kept as its digits.          *)
(***************************************************************************)
Lit(x) == [k |-> "lit", s |-> x, num |-> <<>>]
Tok(num, path) == [k |-> "tok", s |-> path, num |-> num]

\* int(step_num_str)
RECURSIVE IntOfDigits(_)
IntOfDigits(ds) ==
    IF ds = <<>> THEN 0
    ELSE 10 * IntOfDigits(SubSeq(ds, 1, Len(ds) - 1)) + ds[Len(ds)]

\* the digits f"{step_num}" prints
RECURSIVE DigitsOfInt(_)
DigitsOfInt(n) ==
    IF n < 10 THEN << n >> ELSE DigitsOfInt(n \div 10) \o << n % 10 >>

\* placeholder = f"{{{{step{step_num}.{path}}}}}"
PlaceholderText(step_num, path) == Tok(DigitsOfInt(step_num), path)

\* value.replace(placeholder, text): every occurrence of the placeholder's text
StrReplace(atoms, placeholder, text) ==
    [j \in DOMAIN atoms |-> IF atoms[j] = placeholder THEN Lit(text) ELSE atoms[j]]

\* re.findall(pattern, value): the tokens of the string, in order
Matches(atoms) == SelectSeq(atoms, LAMBDA a : a.k = "tok")


(***************************************************************************)
(* Params of a step: a dict whose values are strings (sequences of atoms), *)
(* dicts, lists or other scalars.                                          *)
(***************************************************************************)
PStr(atoms) == [t |-> "str", a |-> atoms, kids |-> <<>>]
PDict(f) == [t |-> "dict", a |-> <<>>, kids |-> f]
PList(q) == [t |-> "list", a |-> <<>>, kids |-> q]
POther == [t |-> "other", a |-> <<>>, kids |-> <<>>]

\* step_result.get("result", {}).get("data", {})
ResultData(record) == record.result.data

\* the text one match of replace_value puts in place of its placeholder
Resolve(step_num, path, sr) ==
    IF step_num > 0 /\ step_num <= Len(sr)
    THEN LET extracted_value == get_deep_value(ResultData(sr[step_num]), path)
         IN IF extracted_value.t = "none" THEN NULL_ID ELSE StrOf(extracted_value)
    ELSE NULL_ID

\* the loop `for step_num_str, path in matches` of replace_value
RECURSIVE ReplaceMatches(_, _, _)
ReplaceMatches(value, matches, sr) ==
    IF matches = <<>> THEN value
    ELSE LET step_num == IntOfDigits(Head(matches).num)
             path == Head(matches).s
         IN ReplaceMatches(
                StrReplace(value, PlaceholderText(step_num, path),
                           Resolve(step_num, path, sr)),
                Tail(matches), sr)

\* replace_value(value) of _replace_placeholders, with context["step_results"] = sr
RECURSIVE replace_value(_, _)
replace_value(value, sr) ==
    IF value.t = "str"
    THEN PStr(ReplaceMatches(value.a, Matches(value.a), sr))
    ELSE IF value.t \in {"dict", "list"}
         THEN [value EXCEPT !.kids =
                  [key \in DOMAIN value.kids |-> replace_value(value.kids[key], sr)]]
         ELSE value

\* _replace_placeholders(params, context)
replace_placeholders(params, sr) == replace_value(params, sr)

IsNullIdStr(value) == value.t = "str" /\ value.a = << Lit(NULL_ID) >>

\* check_null_id(obj) of _dispatch_execution: TRUE when null_id_paths is not empty
RECURSIVE check_null_id(_)
check_null_id(obj) ==
    IF obj.t \in {"dict", "list"}
    THEN \E key \in DOMAIN obj.kids :
            \/ IsNullIdStr(obj.kids[key])
            \/ /\ obj.kids[key].t \in {"dict", "list"}
               /\ check_null_id(obj.kids[key])
    ELSE IsNullIdStr(obj)

(***************************************************************************)
(* Steps and step results.                                                 *)
(*   sensitive : description.startswith("[SENSITIVE]")                     *)
(*   action    : the keyword the lower-cased action contains               *)
(*   cfg, rua  : data.is_config_error, data.requires_user_action truthy    *)
(* A result built without a "data" key carries NoneV: both readers of data *)
(* (`result.get('data') or {}`, get_deep_value) treat the two alike.       *)
(***************************************************************************)
Step(type, action, sensitive, params) ==
    [type |-> type, action |-> action, sensitive |-> sensitive, params |-> params]

Result(success, message, data, cfg, rua) ==
    [success |-> success, message |-> message, data |-> data, cfg |-> cfg, rua |-> rua]

Failure(message) == Result(FALSE, message, NoneV, FALSE, FALSE)

CANCELLED == "cancelled"
NOT_CONFIRMED == "not confirmed"
REFUSED == "refused"
NO_EXECUTOR == "no executor"
PLACEHOLDER_UNFIXABLE == "placeholder error"
RUNTIME_ERROR == "runtime error"

(***************************************************************************)
(* The environment: what executors return, what the Reflector answers.     *)
(***************************************************************************)
DId == DictV("id" :> StrV("X"))
DEmails == DictV("emails" :> ListV(<< DictV("id" :> StrV("X")) >>))
DataSet == {NoneV, DId, DEmails}

\* an executor call returns a result or raises
Returned(r) == [raise |-> FALSE, result |-> r]
Raised == [raise |-> TRUE, result |-> Failure(RUNTIME_ERROR)]
ExecOutcomes ==
    {Returned(Result(TRUE, "ok", d, FALSE, FALSE)) : d \in DataSet}
    \cup {Returned(Result(FALSE, "err", NoneV, c, u)) : c \in BOOLEAN, u \in BOOLEAN}
    \cup {Raised}
LeanOutcomes ==
    {Returned(Result(TRUE, "ok", DId, FALSE, FALSE)),
     Returned(Result(FALSE, "err", NoneV, TRUE, FALSE))}

NoStep == Step("", "", FALSE, PDict(<<>>))
FixedStep == Step("file_delete", "delete", FALSE, PDict("path" :> PStr(<< Lit("b") >>)))
FixedBadType ==
    Step("file_manager", "read", TRUE, PDict("id" :> PStr(<< Tok(<< 1 >>, "id") >>)))
\* a modified_step whose params carry a bracketed placeholder instead of a value
BRACKETED == "[REPLACE_WITH_ACTUAL_PATH]"
FixedBracketed == Step("file_delete", "delete", FALSE, PDict("path" :> PStr(<< Lit(BRACKETED) >>)))

\* ReflectorResult(is_retryable, modified_step, reason); has_step: modified_step is truthy
Verdict(is_retryable, has_step, step) ==
    [is_retryable |-> is_retryable, has_step |-> has_step, modified_step |-> step]
Verdicts ==
    {Verdict(FALSE, FALSE, NoStep), Verdict(TRUE, FALSE, NoStep),
     Verdict(TRUE, TRUE, FixedStep), Verdict(TRUE, TRUE, FixedBadType)}
\* the model has no value to offer for a step whose action it cannot read
BracketedVerdicts(step) ==
    IF step.action = "other" /\ step.type \in {"file_operation", "file_delete"}
    THEN {Verdict(TRUE, TRUE, FixedBracketed)}
    ELSE {}
LeanVerdicts == {Verdict(FALSE, FALSE, NoStep)}

(***************************************************************************)
(* State.                                                                  *)
(***************************************************************************)
VARIABLES
    \* ---- PlanExecutor.execute_plan and _execute_step_with_retry ----
    plan,               \* the list of steps (its dicts are mutated in place)
    ctx_step_results,   \* context["step_results"]: [present, list]
    ctx_confirm,        \* context["_sensitive_confirmation_<i>"]: "absent", "true", "false"
    step_results,       \* the local list of execute_plan
    overall_success,
    pc,                 \* "idle", "start", "loop", "attempt", "gate", "dispatch", "post", "done"
    i,                  \* index of the for loop of execute_plan (0-based)
    attempt,
    current_step,
    replaced,           \* current_step is a modified_step of the Reflector, not plan[i]
    last_result,
    polls,              \* iterations of the wait loop of the sensitive gate so far
    lean,               \* the environment answers from LeanOutcomes / LeanVerdicts
    \* ---- server.py ----
    stop_flags,         \* _stop_flags: the ids mapped to True
    stop_events,        \* _stop_events: id -> "set" / "clear", absent ids left out
    request_id,
    lines,              \* every line the host has written on stdin so far
    rd,                 \* how many of them the loop has read
    stdout,             \* the events written on stdout
    spc,                \* "off" (no server), "read", "run", "exit"
    global_stop_event,  \* email_reader._stop_event is set
    task_line,          \* the number of the execute line whose task runs (ran last)
    \* ---- history ----
    dispatched,         \* indexes handed to _execute_step_with_retry, in order
    exec_log,           \* the executor calls made for the step in hand
    refl_log,           \* the Reflector calls made for the step in hand
    gate_log,           \* the sensitive gates that refused
    \* ---- DeskJarvisAgent.execute: the closure of emit ----
    stream,             \* the events handed to progress_callback, in order
    last_event_key,     \* _last_event_key
    \* ---- tools/memory_queue.py: ThreadSafeMemoryQueue ----
    mq_module,          \* "unloaded", "failed" (the import raised), "loaded", "ready"
    mq_queue,           \* self.queue: the tasks waiting, oldest first
    mq_unfinished,      \* self.queue.unfinished_tasks, which join() waits for
    mq_calls,           \* the enqueue_save calls so far: what each found and did
    mq_wpc,             \* the worker: "none", "loop", "get", "lock", "save", "unlock", "stopped"
    mq_task,            \* the task the worker has in hand, 0 for none
    mq_flock,           \* the lock on .memory_lock: "free", "worker", "other"
    mq_writes,          \* the save_task_result calls so far, in order
    mq_stop,            \* self._stop_event is set
    mq_shut,            \* shutdown(): "no", "joining", "done"
    \* ---- memory/structured_memory.py: StructuredMemory, table preferences ----
    pf_db,              \* the rows of preferences in the database file: key -> value TEXT
    pf_open,            \* a StructuredMemory on that file exists in the process
    pf_set,             \* per key, the value of the last set_preference
    pf_got,             \* the last get_preference since the last set: key and result
    \* ---- core/intent_router.py: IntentRouter.detect ----
    rt_in,              \* the last call: what the text and the encoder gave
    rt_out,             \* what that call returned
    \* ---- core/embedding_model.py: SharedEmbeddingModel ----
    ld_model,           \* self._model is not None
    ld_is_loading,      \* self._is_loading
    ld_ready,           \* self._ready_event is set
    ld_lock,            \* _model_lock: 0 when free, else the thread holding it
    ld_pc,              \* per calling thread, its position in start_loading
    ld_calls,           \* number of start_loading calls made so far
    ld_loader,          \* per loader thread, its position in _load_worker
    ld_started,         \* per loader thread started: was the model loaded at thread.start()
    \* ---- tools/path_validator.py: validate_path ----
    pv_in,              \* the arguments of the last call
    pv_out,             \* its outcome: the path returned, or FileManagerError raised
    \* ---- main.py: DeskJarvisAgent.execute ----
    ag_pc,              \* "idle", "shortcut", "shortcut_plan", "normal", "run"
    ag_emit_context,    \* _emit_context: "None" or "emit"
    ag_in,              \* the call in hand: model ready, intent matched, app name found
    ag_step,            \* the step _try_intent_shortcut built
    ag_out,             \* what the last execute returned
    ag_calls,           \* number of execute calls so far
    \* ---- python script execution (code_interpreter.py) ----
    sc_pc,              \* CodeInterpreter.execute: idle, security, run
    sc_type,            \* type of the step that carried the script
    sc_code,            \* the script text being handled
    sc_attempt,         \* attempt of the retry loop
    sc_executed,        \* scripts handed to the interpreter subprocess
    sc_out,             \* result of the last script step
    sc_calls,           \* script steps so far
    \* ---- reminders (scheduler.py) ----
    sd_pc,              \* scheduler loop: none, head, scan
    sd_now,             \* wall clock in seconds
    sd_obj,             \* the Reminder objects by id
    sd_keys,            \* ids in self.reminders, in insertion order
    sd_tick_now,        \* now of the running tick
    sd_snapshot,        \* rest of list(self.reminders.items())
    sd_triggered_ids,   \* triggered_ids of the running tick
    sd_file,            \* reminders.json
    sd_fired,           \* calls of _trigger_reminder so far
    sd_cancelled,       \* ids cancel_reminder reported success for
    sd_ticks,           \* ticks begun
    sd_calls            \* add_reminder and cancel_reminder calls so far

planVars == << plan, ctx_step_results, ctx_confirm, step_results, overall_success, pc,
               i, attempt, current_step, replaced, last_result, polls, lean >>
serverVars == << stop_flags, stop_events, request_id, lines, rd, stdout, spc,
                global_stop_event, task_line >>
histVars == << dispatched, exec_log, refl_log, gate_log >>
emitVars == << stream, last_event_key >>
queueVars == << mq_module, mq_queue, mq_unfinished, mq_calls, mq_wpc, mq_task, mq_flock,
               mq_writes, mq_stop, mq_shut >>
\* the variables of the components around the kernel
prefVars == << pf_db, pf_open, pf_set, pf_got >>
routerVars == << rt_in, rt_out >>
loaderVars == << ld_model, ld_is_loading, ld_ready, ld_lock, ld_pc, ld_calls, ld_loader,
                ld_started >>
pathVars == << pv_in, pv_out >>
agentVars == << ag_pc, ag_emit_context, ag_in, ag_step, ag_out, ag_calls >>
scriptVars == << sc_pc, sc_type, sc_code, sc_attempt, sc_executed, sc_out, sc_calls >>
schedulerVars == << sd_pc, sd_now, sd_obj, sd_keys, sd_tick_now, sd_snapshot, sd_triggered_ids, sd_file, sd_fired, sd_cancelled, sd_ticks, sd_calls >>
auxVars == << queueVars, prefVars, routerVars, loaderVars, pathVars, agentVars, scriptVars, schedulerVars >>
kernelVars == << planVars, serverVars, histVars, emitVars >>
vars == << kernelVars, auxVars >>
\* what the actions of one component leave alone
queueFrame == << kernelVars, prefVars, routerVars, loaderVars, pathVars, agentVars, scriptVars, schedulerVars >>
prefsFrame == << kernelVars, queueVars, routerVars, loaderVars, pathVars, agentVars, scriptVars, schedulerVars >>
routerFrame == << kernelVars, queueVars, prefVars, loaderVars, pathVars, agentVars, scriptVars, schedulerVars >>
loaderFrame == << kernelVars, queueVars, prefVars, routerVars, pathVars, agentVars, scriptVars, schedulerVars >>
pathFrame == << kernelVars, queueVars, prefVars, routerVars, loaderVars, agentVars, scriptVars, schedulerVars >>
agentFrame == << kernelVars, queueVars, prefVars, routerVars, loaderVars, pathVars, scriptVars, schedulerVars >>
scriptFrame == << kernelVars, queueVars, prefVars, routerVars, loaderVars, pathVars, agentVars, schedulerVars >>
schedulerFrame == << kernelVars, queueVars, prefVars, routerVars, loaderVars, pathVars, agentVars, scriptVars >>

\* no ThreadSafeMemoryQueue in this run
QueueIdle ==
    /\ mq_module = "unloaded"
    /\ mq_queue = << >>
    /\ mq_unfinished = 0
    /\ mq_calls = << >>
    /\ mq_wpc = "none"
    /\ mq_task = 0
    /\ mq_flock = "free"
    /\ mq_writes = << >>
    /\ mq_stop = FALSE
    /\ mq_shut = "no"

(***************************************************************************)
(* Python values as set_preference takes them, and the text of a TEXT      *)
(* column.  A str is either plain (its characters are no JSON document) or *)
(* the characters of the JSON document of a value v.                       *)
(***************************************************************************)
JValue(t, a, kids) == [t |-> t, a |-> a, kids |-> kids]
JNull == JValue("null", "", << >>)
JTrue == JValue("bool", "true", << >>)
JInt == JValue("int", "123", << >>)
JStrPlain(x) == JValue("str", x, << >>)
JStrJson(v) == JValue("strjson", "", << v >>)
JList(q) == JValue("list", "", q)
JTuple(q) == JValue("tuple", "", q)

RawText(x) == [json |-> FALSE, plain |-> x, of |-> << >>]
JsonText(v) == [json |-> TRUE, plain |-> "", of |-> << v >>]

\* what the encoder makes of a value: a tuple is written as an array
RECURSIVE AsJson(_)
AsJson(v) ==
    IF v.t \in {"list", "tuple"}
    THEN JList([k \in DOMAIN v.kids |-> AsJson(v.kids[k])])
    ELSE v

\* json.dumps(value, ensure_ascii=False)
json_dumps(v) == JsonText(AsJson(v))

\* the characters of a str
CharsOf(v) == IF v.t = "strjson" THEN JsonText(v.kids[1]) ELSE RawText(v.a)

\* the str with these characters
StrWith(text) == IF text.json THEN JStrJson(text.of[1]) ELSE JStrPlain(text.plain)

\* json.loads(text) raises JSONDecodeError
json_fails(text) == ~ text.json
\* json.loads(text) when it does not raise
json_loads(text) == text.of[1]

\* no preferences store in this run
NoRow == [json |-> FALSE, plain |-> "no row", of |-> << >>]
NotSet == JValue("not set", "", << >>)
NoGet == [key |-> "", value |-> NotSet]
PrefKeys == {"theme", "lang"}
PrefsIdle ==
    /\ pf_db = [k \in PrefKeys |-> NoRow]
    /\ pf_open = FALSE
    /\ pf_set = [k \in PrefKeys |-> NotSet]
    /\ pf_got = NoGet

\* no detect call yet
NoIntent == "None"
NoCall == [early |-> "no call", scores |-> << >>, has_file_keyword |-> FALSE,
           has_absolute_path |-> FALSE, threshold |-> 0]
NoMatch == [match |-> FALSE, intent_type |-> NoIntent, confidence |-> 0]
RouterIdle ==
    /\ rt_in = NoCall
    /\ rt_out = NoMatch

\* SharedEmbeddingModel.__init__, lines 31-36; nobody has called start_loading
MaxCalls == 3
Callers == {1, 2}
Loaders == 1 .. MaxCalls
LoaderIdle ==
    /\ ld_model = FALSE
    /\ ld_is_loading = FALSE
    /\ ld_ready = FALSE
    /\ ld_lock = 0
    /\ ld_pc = [c \in Callers |-> "idle"]
    /\ ld_calls = 0
    /\ ld_loader = << >>
    /\ ld_started = << >>

\* no validate_path call yet
NoPathCall == [file_path |-> [abs |-> TRUE, parts |-> << >>], sandbox_path |-> << >>,
               allow_home |-> FALSE, called |-> FALSE]
NoPathResult == [raised |-> FALSE, path |-> << >>]
PathIdle ==
    /\ pv_in = NoPathCall
    /\ pv_out = NoPathResult

\* DeskJarvisAgent before any execute call; _emit_context has its default None
MaxExecutes == 2
NoInstruction == [ready |-> FALSE, intent_type |-> "None", app_name |-> FALSE]
NoShortcutStep == [type |-> "", action |-> ""]
AgentIdle ==
    /\ ag_pc = "idle"
    /\ ag_emit_context = "None"
    /\ ag_in = NoInstruction
    /\ ag_step = NoShortcutStep
    /\ ag_out = "none"
    /\ ag_calls = 0

\* CodeInterpreter before any script was submitted
MaxScripts == 2
max_retries == 2
NoScript == [pattern |-> FALSE, forbidden |-> FALSE, parses |-> FALSE]
ScriptIdle ==
    /\ sc_pc = "idle"
    /\ sc_type = "none"
    /\ sc_code = NoScript
    /\ sc_attempt = 0
    /\ sc_executed = {}
    /\ sc_out = "none"
    /\ sc_calls = 0

\* agent.scheduler before get_scheduler was called: no Scheduler exists
MaxTicks == 3
MaxReminderCalls == 2
SchedulerIdle ==
    /\ sd_pc = "none"
    /\ sd_now = 0
    /\ sd_obj = << >>
    /\ sd_keys = << >>
    /\ sd_tick_now = 0
    /\ sd_snapshot = << >>
    /\ sd_triggered_ids = << >>
    /\ sd_file = << >>
    /\ sd_fired = << >>
    /\ sd_cancelled = {}
    /\ sd_ticks = 0
    /\ sd_calls = 0

AuxIdle == QueueIdle /\ PrefsIdle /\ RouterIdle /\ LoaderIdle /\ PathIdle /\ AgentIdle /\ ScriptIdle /\ SchedulerIdle

(***************************************************************************)
(* PlanExecutor: the registry and the lookup of an executor.               *)
(***************************************************************************)
\* self.tools: the executors the orchestrator hands to PlanExecutor
Tools == {"file_manager", "browser_executor", "system_tools", "email_executor"}

\* self.executor_registry.get(step_type), "" when the type is not registered
Registry(step_type) ==
    CASE step_type \in {"file_delete", "file_read", "file_write"} -> "file_manager"
      [] step_type \in {"browser_click", "request_login"} -> "browser_executor"
      [] step_type \in {"open_app", "close_app", "python_script"} -> "system_tools"
      [] step_type \in {"search_emails", "get_email_details"} -> "email_executor"
      [] OTHER -> ""

ToolsGet(name) == IF name \in Tools THEN name ELSE "none"

\* _get_executor_for_step(step_type)
get_executor_for_step(step_type) ==
    IF Registry(step_type) # "" /\ ToolsGet(Registry(step_type)) # "none"
    THEN ToolsGet(Registry(step_type))
    ELSE IF step_type \in {"file_manager", "FileManager", "file_operation"}
         THEN ToolsGet("file_manager")
         ELSE ToolsGet("system_tools")

\* the repair of the type in _dispatch_execution (step["type"] is rewritten)
RepairType(step) ==
    IF step.type \in {"file_manager", "FileManager", "file_operation"}
    THEN [step EXCEPT !.type = CASE step.action = "delete" -> "file_delete"
                                 [] step.action = "read" -> "file_read"
                                 [] step.action = "write" -> "file_write"
                                 [] OTHER -> "file_delete"]
    ELSE IF step.type = "app_control"
         THEN [step EXCEPT !.type = IF step.action = "close" THEN "close_app"
                                    ELSE "open_app"]
         ELSE step

(***************************************************************************)
(* What the history records of a dispatch.                                 *)
(***************************************************************************)
RECURSIVE TokensOf(_)
TokensOf(value) ==
    IF value.t = "str"
    THEN {value.a[j] : j \in {n \in DOMAIN value.a : value.a[n].k = "tok"}}
    ELSE IF value.t \in {"dict", "list"}
         THEN UNION {TokensOf(value.kids[key]) : key \in DOMAIN value.kids}
         ELSE {}

\* the step numbers N of the tokens of params that resolve to data / to None
ResolvedNums(params, sr) ==
    {IntOfDigits(tok.num) : tok \in
        {x \in TokensOf(params) : Resolve(IntOfDigits(x.num), x.s, sr) # NULL_ID}}
UnresolvedNums(params, sr) ==
    {IntOfDigits(tok.num) : tok \in
        {x \in TokensOf(params) : Resolve(IntOfDigits(x.num), x.s, sr) = NULL_ID}}

(***************************************************************************)
(* PlanExecutor.execute_plan                                               *)
(***************************************************************************)
\* is_stopped(request_id), which context["_check_stop"] calls
IsStoppedIn(flags, rid) == rid \in flags
is_stopped(rid) == IsStoppedIn(stop_flags, rid)
CheckStop == is_stopped(request_id)

Truthy(confirmation) == confirmation = "true"

Outcomes == IF lean THEN LeanOutcomes ELSE ExecOutcomes
ReflectorVerdicts ==
    IF lean THEN LeanVerdicts ELSE Verdicts \cup BracketedVerdicts(current_step)

(***************************************************************************)
(* main.py, DeskJarvisAgent.execute: the emit closure every component gets. *)
(***************************************************************************)
\* map_event_type: "" stands for None (the type is not on the white list)
map_event_type(event_type) ==
    CASE event_type = "thinking" -> "thinking"
      [] event_type = "execution_started" -> "executing"
      [] event_type = "step_started" -> "executing"
      [] event_type = "step_completed" -> "success"
      [] event_type = "step_failed" -> "error"
      [] event_type = "plan_ready" -> "thinking"
      [] event_type = "sensitive_operation_detected" -> "thinking"
      [] event_type = "error" -> "error"
      [] OTHER -> ""

\* step.get('description', step.get('action', ...)); a description that starts
\* with [SENSITIVE] is what makes a step sensitive
Description(step) == IF step.sensitive THEN "[SENSITIVE] " ELSE step.action

NoIndex == -1
START_DESCRIPTION == "start of task"

\* the data dict of an emit call: the keys sanitize_event_data looks at, and
\* traceback; has_step: data["step"] is there, step_index NoIndex: no such key
Data(phase, has_step, description, step_index, message, traceback) ==
    [phase |-> phase, has_step |-> has_step, description |-> description,
     step_index |-> step_index, message |-> message, traceback |-> traceback]

Raw(event_type, data) == [type |-> event_type, data |-> data]

\* sanitize_event_data builds a new dict from the keys it names; description ""
\* and step_index NoIndex stand for a key that is not set
sanitize_event_data(event_type, data) ==
    CASE event_type = "thinking" ->
            [phase |-> data.phase, description |-> "", step_index |-> NoIndex,
             message |-> "", traceback |-> FALSE]
      [] event_type = "executing" ->
            [phase |-> "",
             description |-> IF data.has_step THEN data.description
                             ELSE START_DESCRIPTION,
             step_index |-> data.step_index, message |-> "", traceback |-> FALSE]
      [] event_type = "success" ->
            [phase |-> "", description |-> data.description,
             step_index |-> data.step_index, message |-> "", traceback |-> FALSE]
      [] OTHER ->
            [phase |-> "",
             description |-> IF data.has_step THEN data.description ELSE "",
             step_index |-> data.step_index, message |-> data.message,
             traceback |-> FALSE]

\* f"{mapped_type}:{description}:{step_index}"
EventKey(mapped_type, description, step_index) ==
    << mapped_type, description, step_index >>
NoKey == << >>

\* emit that sends every whitelisted event, also one whose key is the last key
emit_no_dedupe(st, event_type, data) ==
    LET mapped_type == map_event_type(event_type) IN
    IF mapped_type = ""
    THEN st
    ELSE LET sanitized_data == sanitize_event_data(mapped_type, data)
         IN [key |-> EventKey(mapped_type, sanitized_data.description,
                              sanitized_data.step_index),
             stream |-> Append(st.stream,
                           [type |-> mapped_type, data |-> sanitized_data])]

\* emit(event_type, data), on the state st = [key, stream] of the closure
emit(st, event_type, data) ==
    LET mapped_type == map_event_type(event_type) IN
    IF mapped_type = ""
    THEN st
    ELSE LET sanitized_data == sanitize_event_data(mapped_type, data)
             event_key == EventKey(mapped_type, sanitized_data.description,
                                   sanitized_data.step_index)
         IN IF event_key = st.key
            THEN st
            ELSE [key |-> event_key,
                  stream |-> Append(st.stream,
                                [type |-> mapped_type, data |-> sanitized_data])]

RECURSIVE EmitAll(_, _)
EmitAll(st, raws) ==
    IF raws = << >> THEN st
    ELSE EmitAll(emit(st, raws[1].type, raws[1].data), Tail(raws))

\* the emit calls of one step of the program, in order
Emits(raws) ==
    LET st == EmitAll([key |-> last_event_key, stream |-> stream], raws)
    IN /\ last_event_key' = st.key
       /\ stream' = st.stream

Thinking(phase) == Raw("thinking", Data(phase, FALSE, "", NoIndex, "", FALSE))

\* plan_executor.py lines 97-115: step_completed or step_failed, when the step in
\* hand has come back in this step of the program
ReturnEmission ==
    IF Len(step_results') = Len(step_results) + 1
    THEN LET record == step_results'[Len(step_results')]
         IN << Raw(IF record.result.success THEN "step_completed" ELSE "step_failed",
                   Data("", TRUE, Description(record.step), i,
                        record.result.message, FALSE)) >>
    ELSE << >>

(***************************************************************************)
(* PlanExecutor.execute_plan                                               *)
(***************************************************************************)
\* lines 51-66: the locals, and context["step_results"] when the key is missing
ExecutePlanEnter ==
    /\ pc = "start"
    /\ step_results' = << >>
    /\ overall_success' = TRUE
    /\ ctx_step_results' = IF ctx_step_results.present THEN ctx_step_results
                           ELSE [present |-> TRUE, list |-> << >>]
    /\ i' = 0
    /\ pc' = "loop"
    /\ Emits(<< Raw("execution_started",
                    Data("", FALSE, "", NoIndex, "", FALSE)) >>)
    /\ UNCHANGED << plan, ctx_confirm, attempt, current_step, replaced, last_result,
                    polls, lean, serverVars, histVars >>
    /\ UNCHANGED auxVars

\* lines 68-87: the head of the for loop, up to the call of _execute_step_with_retry
LoopHead ==
    /\ pc = "loop"
    /\ IF i >= Len(plan) \/ CheckStop
       THEN /\ pc' = "done"
            /\ UNCHANGED << attempt, current_step, replaced, last_result, dispatched,
                            exec_log, refl_log, emitVars >>
       ELSE /\ Emits(<< Raw("step_started",
                            Data("", TRUE, Description(plan[i + 1]), i, "", FALSE)) >>)
            /\ dispatched' = Append(dispatched, i)
            /\ exec_log' = << >>
            /\ refl_log' = << >>
            /\ current_step' = plan[i + 1]
            /\ replaced' = FALSE
            /\ last_result' = Failure("None")
            /\ attempt' = 1
            /\ pc' = "attempt"
    /\ UNCHANGED << plan, ctx_step_results, ctx_confirm, step_results, overall_success,
                    i, polls, lean, serverVars, gate_log >>
    /\ UNCHANGED auxVars

\* a faulty loop that goes on to the next step after a failed one (C5 rejects it)
StepReturns_no_break(r, p) ==
    /\ plan' = p
    /\ step_results' = Append(step_results, [step |-> p[i + 1], result |-> r])
    /\ ctx_step_results' = [present |-> TRUE, list |-> step_results']
    /\ i' = i + 1
    /\ pc' = "loop"
    /\ overall_success' = (overall_success /\ r.success)

\* a faulty loop that records only the steps that succeeded (C6 rejects it)
StepReturns_drop_failure(r, p) ==
    /\ plan' = p
    /\ step_results' = IF r.success
                       THEN Append(step_results, [step |-> p[i + 1], result |-> r])
                       ELSE step_results
    /\ ctx_step_results' = [present |-> TRUE, list |-> step_results']
    /\ IF r.success
       THEN /\ i' = i + 1
            /\ pc' = "loop"
            /\ UNCHANGED overall_success
       ELSE /\ overall_success' = FALSE
            /\ pc' = "done"
            /\ UNCHANGED i

\* lines 89-116: _execute_step_with_retry returned r; p is the plan as mutated so far
StepReturns(r, p) ==
    /\ plan' = p
    /\ step_results' = Append(step_results, [step |-> p[i + 1], result |-> r])
    /\ ctx_step_results' = [present |-> TRUE, list |-> step_results']
    /\ IF r.success
       THEN /\ i' = i + 1
            /\ pc' = "loop"
            /\ UNCHANGED overall_success
       ELSE /\ overall_success' = FALSE
            /\ pc' = "done"
            /\ UNCHANGED i


(***************************************************************************)
(* PlanExecutor._execute_step_with_retry                                   *)
(***************************************************************************)
\* a faulty loop with one attempt too many (C11 rejects it)
NextAttempt_one_more(p, last) ==
    IF attempt <= max_attempts
    THEN /\ attempt' = attempt + 1
         /\ pc' = "attempt"
         /\ plan' = p
         /\ UNCHANGED << ctx_step_results, step_results, overall_success, i >>
    ELSE /\ StepReturns(last, p)
         /\ UNCHANGED attempt

\* the for loop goes to its next attempt, or runs out and returns last_result
NextAttempt(p, last) ==
    IF attempt < max_attempts
    THEN /\ attempt' = attempt + 1
         /\ pc' = "attempt"
         /\ plan' = p
         /\ UNCHANGED << ctx_step_results, step_results, overall_success, i >>
    ELSE /\ StepReturns(last, p)
         /\ UNCHANGED attempt

\* lines 220-225: the entry of the confirmation decides
\* a faulty gate that takes any value present under the key as consent (C3 rejects it)
sensitive_confirmed_any(confirmation) == confirmation # "absent"

sensitive_confirmed(confirmation) == Truthy(confirmation)

\* lines 183-225: the stop check before execution and the sensitive gate
AttemptBegin ==
    /\ pc = "attempt"
    /\ IF CheckStop
       THEN /\ StepReturns(Failure(CANCELLED), plan)
            /\ UNCHANGED << polls, gate_log >>
       ELSE IF current_step.sensitive
            THEN IF ctx_confirm[i] = "absent"
                 THEN /\ pc' = "gate"
                      /\ polls' = 0
                      /\ UNCHANGED << plan, ctx_step_results, step_results,
                                      overall_success, i, gate_log >>
                 ELSE IF sensitive_confirmed(ctx_confirm[i])
                      THEN /\ pc' = "dispatch"
                           /\ UNCHANGED << plan, ctx_step_results, step_results,
                                           overall_success, i, polls, gate_log >>
                      ELSE /\ StepReturns(Failure(REFUSED), plan)
                           /\ gate_log' = gate_log \cup
                                 {[i |-> i, attempt |-> attempt, why |-> "denied"]}
                           /\ UNCHANGED polls
            ELSE /\ pc' = "dispatch"
                 /\ UNCHANGED << plan, ctx_step_results, step_results, overall_success,
                                 i, polls, gate_log >>
    /\ Emits((IF ~ CheckStop /\ current_step.sensitive
               THEN << Raw("sensitive_operation_detected",
                           Data("unknown", TRUE, Description(current_step), i, "",
                                FALSE)) >>
               ELSE << >>) \o ReturnEmission)
    /\ UNCHANGED << ctx_confirm, attempt, current_step, replaced, last_result, lean,
                    serverVars, dispatched, exec_log, refl_log >>
    /\ UNCHANGED auxVars

\* lines 209-217: the condition of the wait loop, then one sleep(0.5) and stop check;
\* when the window has closed, the key is looked up once more
GatePoll ==
    /\ pc = "gate"
    /\ IF ctx_confirm[i] = "absent" /\ polls < MaxPolls
       THEN /\ polls' = polls + 1
            /\ IF CheckStop
               THEN StepReturns(Failure(CANCELLED), plan)
               ELSE UNCHANGED << plan, ctx_step_results, step_results,
                                 overall_success, i, pc >>
            /\ UNCHANGED gate_log
       ELSE IF ctx_confirm[i] = "absent"
            THEN /\ StepReturns(Failure(NOT_CONFIRMED), plan)
                 /\ gate_log' = gate_log \cup
                       {[i |-> i, attempt |-> attempt, why |-> "absent"]}
                 /\ UNCHANGED polls
            ELSE IF sensitive_confirmed(ctx_confirm[i])
                 THEN /\ pc' = "dispatch"
                      /\ UNCHANGED << plan, ctx_step_results, step_results,
                                      overall_success, i, polls, gate_log >>
                 ELSE /\ StepReturns(Failure(REFUSED), plan)
                      /\ gate_log' = gate_log \cup
                            {[i |-> i, attempt |-> attempt, why |-> "denied"]}
                      /\ UNCHANGED polls
    /\ Emits(ReturnEmission)
    /\ UNCHANGED << ctx_confirm, attempt, current_step, replaced, last_result, lean,
                    serverVars, dispatched, exec_log, refl_log >>
    /\ UNCHANGED auxVars

\* lines 276-305: the handler of PlaceholderError, with the Reflector's verdict v
PlaceholderHandler(v, p) ==
    /\ refl_log' = Append(refl_log, [i |-> i, attempt |-> attempt, why |-> "placeholder"])
    /\ IF v.is_retryable /\ v.has_step
       THEN /\ current_step' = v.modified_step
            /\ replaced' = TRUE
            /\ NextAttempt(p, last_result)
       ELSE /\ StepReturns(Failure(PLACEHOLDER_UNFIXABLE), p)
            /\ UNCHANGED << current_step, replaced, attempt >>
    /\ Emits(<< Thinking("placeholder_reflection") >>
             \o (IF v.is_retryable /\ v.has_step
                 THEN << Thinking("placeholder_fix_applied") >> ELSE << >>)
             \o ReturnEmission)
    /\ UNCHANGED << last_result, exec_log >>

\* browser.py lines 468-469 and 1612: a request_login step asks the user, through
\* UserInputManager.request_login and _send_request_and_wait
NeedsInput(step_type) == step_type = "request_login"

\* user_input.py lines 282-292: the two events _send_request_and_wait emits before
\* it polls the response file
InputRequest ==
    << Raw("user_input_request", Data("", FALSE, "", NoIndex, "", FALSE)),
       Raw("request_input", Data("", FALSE, "", NoIndex, "", FALSE)) >>

\* the record of one executor call; polled: the call waited on the response file
ExecEntry(step, before, out) ==
    [i |-> i, attempt |-> attempt, type |-> step.type, sensitive |-> step.sensitive,
     confirm |-> ctx_confirm[i], params |-> step.params,
     resolved |-> ResolvedNums(before, ctx_step_results.list),
     unresolved |-> UnresolvedNums(before, ctx_step_results.list),
     raised |-> out.raise, result |-> out.result, polled |-> NeedsInput(step.type)]

\* _stop_flags when an executor call ends: the call takes time, and where the flag is
\* set by another thread than the one that runs the plan it may be set meanwhile
FlagsAfterCall ==
    IF spc = "off" THEN {stop_flags, stop_flags \cup {request_id}} ELSE {stop_flags}

\* lines 227-235 and 306-309: the executor is looked up and _dispatch_execution runs
\* (lines 465-567): placeholders, the NULL_ID check, the type repair, the executor
Dispatch ==
    /\ pc = "dispatch"
    /\ IF get_executor_for_step(current_step.type) = "none"
       THEN /\ StepReturns(Failure(NO_EXECUTOR), plan)
            /\ Emits(ReturnEmission)
            /\ UNCHANGED << attempt, current_step, replaced, last_result, exec_log,
                            refl_log, stop_flags >>
       ELSE LET params == replace_placeholders(current_step.params, ctx_step_results.list)
                step1 == [current_step EXCEPT !.params = params]
                plan1 == IF replaced THEN plan ELSE [plan EXCEPT ![i + 1] = step1]
            IN IF check_null_id(params)
               THEN /\ \E v \in ReflectorVerdicts : PlaceholderHandler(v, plan1)
                    /\ UNCHANGED stop_flags
               ELSE LET step2 == RepairType(step1)
                        plan2 == IF replaced THEN plan ELSE [plan EXCEPT ![i + 1] = step2]
                    IN \E out \in Outcomes :
                          /\ exec_log' = Append(exec_log,
                                            ExecEntry(step2, current_step.params, out))
                          /\ IF out.raise
                             THEN /\ IF attempt = max_attempts
                                     THEN /\ StepReturns(Failure(RUNTIME_ERROR), plan2)
                                          /\ UNCHANGED attempt
                                     ELSE NextAttempt(plan2, last_result)
                                  /\ current_step' = step2
                                  /\ UNCHANGED << last_result, replaced >>
                             ELSE /\ last_result' = out.result
                                  /\ current_step' = step2
                                  /\ plan' = plan2
                                  /\ pc' = "post"
                                  /\ UNCHANGED << ctx_step_results, step_results,
                                                  overall_success, i, attempt, replaced >>
                          /\ stop_flags' \in FlagsAfterCall
                          /\ Emits((IF NeedsInput(step2.type) THEN InputRequest
                                    ELSE << >>) \o ReturnEmission)
                          /\ UNCHANGED refl_log
    /\ UNCHANGED << ctx_confirm, polls, lean, stop_events, request_id, lines, rd, stdout,
                    spc, global_stop_event, task_line, dispatched, gate_log >>
    /\ UNCHANGED auxVars

\* lines 245-252: is_config_error = is_config_error or requires_action
\* a faulty test that forgets requires_user_action (C10 rejects it)
is_config_error_only(result) == result.cfg

is_config_error(result) == result.cfg \/ result.rua

\* lines 237-274: the stop check after execution, success, config errors, the Reflector
PostExec ==
    /\ pc = "post"
    /\ IF CheckStop
       THEN /\ StepReturns(Failure(CANCELLED), plan)
            /\ Emits(ReturnEmission)
            /\ UNCHANGED << attempt, current_step, replaced, refl_log >>
       ELSE IF last_result.success \/ is_config_error(last_result)
            THEN /\ StepReturns(last_result, plan)
                 /\ Emits(ReturnEmission)
                 /\ UNCHANGED << attempt, current_step, replaced, refl_log >>
            ELSE IF attempt < max_attempts
                 THEN \E v \in ReflectorVerdicts :
                         /\ refl_log' = Append(refl_log,
                               [i |-> i, attempt |-> attempt, why |-> "failure"])
                         /\ IF v.is_retryable /\ v.has_step
                            THEN current_step' = v.modified_step /\ replaced' = TRUE
                            ELSE UNCHANGED << current_step, replaced >>
                         /\ NextAttempt(plan, last_result)
                         /\ Emits(<< Thinking("reflection") >>
                                  \o (IF v.is_retryable /\ v.has_step
                                      THEN << Thinking("reflection_applied") >>
                                      ELSE << >>)
                                  \o ReturnEmission)
                 ELSE /\ StepReturns(last_result, plan)
                      /\ Emits(ReturnEmission)
                      /\ UNCHANGED << attempt, current_step, replaced, refl_log >>
    /\ UNCHANGED << ctx_confirm, last_result, polls, lean, serverVars, dispatched,
                    exec_log, gate_log >>
    /\ UNCHANGED auxVars


(***************************************************************************)
(* Spec: one call of execute_plan.                                         *)
(***************************************************************************)
SPlain == Step("open_app", "other", FALSE, PDict("app_name" :> PStr(<< Lit("a") >>)))
SSearch ==
    Step("search_emails", "other", FALSE,
         PDict("query" :> PStr(<< Lit("a") >>) @@ "limit" :> POther))
SSens == Step("file_delete", "delete", TRUE, PDict("path" :> PStr(<< Lit("a") >>)))
SLogin == Step("request_login", "other", FALSE, PDict("site_name" :> PStr(<< Lit("a") >>)))
SBadType == Step("file_manager", "read", FALSE, PDict("path" :> PStr(<< Lit("a") >>)))
\* a known-bad file type whose action names none of delete, read, write
SBadMove == Step("file_operation", "other", FALSE, PDict("path" :> PStr(<< Lit("a") >>)))
\* the token is the whole value, sits inside a longer string, is nested in a list / dict
SWhole(num, path) ==
    Step("get_email_details", "other", FALSE, PDict("id" :> PStr(<< Tok(num, path) >>)))
SInside(num, path) ==
    Step("get_email_details", "other", FALSE,
         PDict("id" :> PStr(<< Lit("a"), Tok(num, path) >>)))
SNested(num, path) ==
    Step("get_email_details", "other", FALSE,
         PDict("ids" :> PList(<< PStr(<< Tok(num, path) >>) >>)
               @@ "opt" :> PDict("id" :> PStr(<< Tok(num, path) >>))))

PlanSet ==
    { << SPlain >>, << SSens >>, << SPlain, SSens >>, << SBadType >>, << SBadMove >>, << SLogin >>,
      << SSearch, SWhole(<< 1 >>, "id") >>,
      << SSearch, SWhole(<< 1 >>, "emails[0].id") >>,
      << SSearch, SWhole(<< 1 >>, "result.emails[0].id") >>,
      << SSearch, SInside(<< 1 >>, "missing") >>,
      << SSearch, SNested(<< 1 >>, "id") >>,
      << SSearch, SWhole(<< 0, 1 >>, "id") >>,
      << SSearch, SWhole(<< 3 >>, "id") >>,
      << SWhole(<< 1 >>, "id") >>,
      << SWhole(<< 0 >>, "id") >>,
      << SInside(<< 2 >>, "id"), SPlain >>,
      << SPlain, SPlain, SPlain >> }

\* the steps a plan of the model may have
Indexes == 0 .. 2

\* the confirmations the caller's context brings: none, or one entry
ConfirmSet ==
    { [j \in Indexes |-> "absent"] }
    \cup { [j \in Indexes |-> IF j = k THEN c ELSE "absent"] :
              k \in 0 .. 1, c \in {"true", "false"} }

\* context["step_results"] as the caller passes it: no key, or a list left by an
\* earlier plan
StaleRecord == [step |-> SSearch, result |-> Result(TRUE, "ok", DId, FALSE, FALSE)]
CtxStepResultsSet ==
    { [present |-> FALSE, list |-> << >>], [present |-> TRUE, list |-> << StaleRecord >>] }

NoServer ==
    /\ stop_flags = {}
    /\ stop_events = << >>
    /\ request_id = "t1"
    /\ lines = << >>
    /\ rd = 0
    /\ stdout = << >>
    /\ spc = "off"
    /\ global_stop_event = FALSE
    /\ task_line = 0

FreshLocals ==
    /\ step_results = << >>
    /\ overall_success = TRUE
    /\ i = 0
    /\ attempt = 0
    /\ current_step = NoStep
    /\ replaced = FALSE
    /\ last_result = Failure("None")
    /\ polls = 0

FreshHistory ==
    /\ dispatched = << >>
    /\ exec_log = << >>
    /\ refl_log = << >>
    /\ gate_log = {}

\* main.py lines 264-276: the fast path makes a plan of one step and emits a
\* thinking event before it calls execute_plan; other callers have emitted nothing
FastPathOf(p) == IF Len(p) = 1 /\ ~ p[1].sensitive THEN BOOLEAN ELSE {FALSE}
EmittedBefore(fast) == IF fast THEN << Thinking("fast_path") >> ELSE << >>

Init ==
    /\ plan \in PlanSet
    /\ ctx_confirm \in ConfirmSet
    /\ ctx_step_results \in CtxStepResultsSet
    /\ pc = "start"
    /\ lean = FALSE
    /\ FreshLocals
    /\ FreshHistory
    /\ NoServer
    /\ AuxIdle
    /\ \E fast \in FastPathOf(plan) :
          /\ stream = EmitAll([key |-> NoKey, stream |-> << >>], EmittedBefore(fast)).stream
          /\ last_event_key = EmitAll([key |-> NoKey, stream |-> << >>],
                                      EmittedBefore(fast)).key

\* context["_check_stop"]() starts to answer True (the flag of the task is set)
StopSignal ==
    /\ spc = "off"
    /\ pc \notin {"idle", "done"}
    /\ request_id \notin stop_flags
    /\ stop_flags' = stop_flags \cup {request_id}
    /\ UNCHANGED << planVars, stop_events, request_id, lines, rd, stdout, spc,
                    global_stop_event, task_line, histVars, emitVars >>
    /\ UNCHANGED auxVars

\* lines 118-123: the dict execute_plan returns
execute_plan_result ==
    [success |-> overall_success,
     message |-> IF overall_success THEN "done" ELSE "failed",
     steps |-> step_results]

PlanNext ==
    \/ ExecutePlanEnter
    \/ LoopHead
    \/ AttemptBegin
    \/ GatePoll
    \/ Dispatch
    \/ PostExec

Next == PlanNext \/ StopSignal

Spec == Init /\ [][Next]_vars

\* the state in which the executor or the Reflector is to be called
CallEnabled == pc \in {"dispatch", "post"}

\* CallEnabled is the enabling condition of those two steps (an invariant of Spec)
CallEnabledIsEnabled == CallEnabled <=> ENABLED << Dispatch \/ PostExec >>_vars

\* execute_plan runs on one thread that goes on until it returns: each of its
\* steps is taken once it stays possible; the stop signal may never come. For
\* Dispatch and PostExec weak fairness is written out, with CallEnabled for
\* ENABLED << Dispatch \/ PostExec >>_vars.
SpecLive ==
    /\ Spec
    /\ WF_vars(ExecutePlanEnter \/ LoopHead \/ AttemptBegin \/ GatePoll)
    /\ ([]<>(~ CallEnabled) \/ []<><< Dispatch \/ PostExec >>_vars)

(***************************************************************************)
(* server.py: the command loop of main().  The loop reads one line, handles *)
(* it to the end (agent.execute included) and only then reads the next.     *)
(***************************************************************************)
Ids == {"t1", "t2"}

NoConfirmation == [j \in Indexes |-> "absent"]
Confirmed0 == [j \in Indexes |-> IF j = 0 THEN "true" ELSE "absent"]

\* a line of stdin as the host writes it; ctx stands for the "context" of execute
Line(cmd, id, instruction, ctx) ==
    [cmd |-> cmd, id |-> id, instruction |-> instruction, ctx |-> ctx]

\* "not json": json.loads raises; NOT_AN_OBJECT: the line is JSON but no object
\* (a number, a string, a list, null), so that json.loads returns no dict
NOT_AN_OBJECT == "not an object"

HostLines ==
    {Line("ping", "h1", "", NoConfirmation), Line("shutdown", "h1", "", NoConfirmation),
     Line("", "", "", NoConfirmation), Line("not json", "", "", NoConfirmation),
     Line(NOT_AN_OBJECT, "", "", NoConfirmation)}
    \cup {Line("stop", id, "", NoConfirmation) : id \in Ids}
    \cup {Line("confirm", "t1", "", Confirmed0)}
    \cup {Line("execute", "t1", "do", c) : c \in {NoConfirmation, Confirmed0}}
    \cup {Line("execute", "t1", "", NoConfirmation)}

\* the plans the planner hands to execute_plan in SpecServer
ServerPlans == { << SPlain, SPlain >>, << SSens >> }

\* what the history keeps of a line: the task that was running when the host wrote
\* it (the number of its execute line, 0 for none), for a stop written while a step
\* of that task was in flight how many steps the task had dispatched (0 otherwise),
\* and the step whose sensitive gate it was waiting at (-1 for none)
Written(line) ==
    [cmd |-> line.cmd, id |-> line.id, instruction |-> line.instruction,
     ctx |-> line.ctx,
     during |-> IF spc = "run" /\ line.cmd \in {"ping", "stop", "confirm"}
                THEN task_line ELSE 0,
     at |-> IF spc = "run" /\ line.cmd = "stop"
               /\ pc \in {"attempt", "gate", "dispatch", "post"}
            THEN Len(dispatched) ELSE 0,
     gate |-> IF spc = "run" /\ pc = "gate" /\ line.cmd = "confirm" THEN i ELSE -1]

\* the host writes a line on the agent's stdin; the pipe keeps it until it is read
HostWrite ==
    /\ spc \in {"read", "run"}
    /\ Len(lines) < MaxLines
    /\ \E line \in HostLines : lines' = Append(lines, Written(line))
    /\ UNCHANGED << planVars, stop_flags, stop_events, global_stop_event, request_id,
                    rd, stdout, spc, task_line, histVars, emitVars >>
    /\ UNCHANGED auxVars

\* send_event: one JSON line on stdout; line is the stdin line it answers
\* traceback: the data of the event holds a "traceback" key
Event(type, id, line, message, steps) ==
    [type |-> type, id |-> id, line |-> line, message |-> message, steps |-> steps,
     traceback |-> FALSE]

\* `for raw_line in sys.stdin`: the next line, once the handler of the last returned
NextLine == lines[rd + 1]
CanRead == spc = "read" /\ rd < Len(lines)

TaskIdle == UNCHANGED << planVars, histVars, task_line, emitVars >>

\* lines 112-124: blank lines are skipped, a JSON error is reported
ReadBlankOrBad ==
    /\ CanRead
    /\ NextLine.cmd \in {"", "not json"}
    /\ rd' = rd + 1
    /\ stdout' = IF NextLine.cmd = "" THEN stdout
                 ELSE Append(stdout, Event("error", "", rd + 1, "json", 0))
    /\ UNCHANGED << stop_flags, stop_events, global_stop_event, request_id, lines, spc >>
    /\ TaskIdle
    /\ UNCHANGED auxVars

\* lines 126-127 and 299-302: cmd.get raises AttributeError on a value that is no
\* dict; no handler inside the loop catches it, the except around the loop logs
\* it and main goes on to its cleanup
ReadNotObject ==
    /\ CanRead
    /\ NextLine.cmd = NOT_AN_OBJECT
    /\ rd' = rd + 1
    /\ spc' = "exit"
    /\ UNCHANGED << stop_flags, stop_events, global_stop_event, request_id, lines,
                    stdout >>
    /\ TaskIdle
    /\ UNCHANGED auxVars

\* lines 130-135
ReadPing ==
    /\ CanRead
    /\ NextLine.cmd = "ping"
    /\ rd' = rd + 1
    /\ request_id' = NextLine.id
    /\ stdout' = Append(stdout, Event("pong", NextLine.id, rd + 1, "", 0))
    /\ UNCHANGED << stop_flags, stop_events, global_stop_event, lines, spc >>
    /\ TaskIdle
    /\ UNCHANGED auxVars

\* lines 138-163
ReadStop ==
    /\ CanRead
    /\ NextLine.cmd = "stop"
    /\ rd' = rd + 1
    /\ request_id' = NextLine.id
    /\ stop_flags' = stop_flags \cup {NextLine.id}
    /\ stop_events' = (NextLine.id :> "set") @@ stop_events
    /\ global_stop_event' = TRUE
    /\ stdout' = Append(stdout, Event("stop_ack", NextLine.id, rd + 1, "", 0))
    /\ UNCHANGED << lines, spc >>
    /\ TaskIdle
    /\ UNCHANGED auxVars

\* lines 166-173
ReadShutdown ==
    /\ CanRead
    /\ NextLine.cmd = "shutdown"
    /\ rd' = rd + 1
    /\ request_id' = NextLine.id
    /\ stdout' = Append(stdout, Event("shutdown_ack", NextLine.id, rd + 1, "", 0))
    /\ spc' = "exit"
    /\ UNCHANGED << stop_flags, stop_events, global_stop_event, lines >>
    /\ TaskIdle
    /\ UNCHANGED auxVars

\* lines 292-297
ReadUnknown ==
    /\ CanRead
    /\ NextLine.cmd \notin {"", "not json", NOT_AN_OBJECT, "ping", "stop", "shutdown",
                            "execute"}
    /\ rd' = rd + 1
    /\ request_id' = NextLine.id
    /\ stdout' = Append(stdout, Event("error", NextLine.id, rd + 1, "unknown command", 0))
    /\ UNCHANGED << stop_flags, stop_events, global_stop_event, lines, spc >>
    /\ TaskIdle
    /\ UNCHANGED auxVars

\* lines 260-271: the flag and the event of the task are dropped, the result is sent
Cleanup(rid) ==
    /\ stop_flags' = stop_flags \ {rid}
    /\ stop_events' = [x \in (DOMAIN stop_events) \ {rid} |-> stop_events[x]]

\* lines 176-248: the execute handler up to the call of agent.execute, which
\* (main.py, lines 272-276) runs execute_plan on the plan with this context
ReadExecute ==
    /\ CanRead
    /\ NextLine.cmd = "execute"
    /\ rd' = rd + 1
    /\ request_id' = NextLine.id
    /\ UNCHANGED lines
    /\ LET flags == stop_flags \ {NextLine.id}
           events == (NextLine.id :> "clear") @@ stop_events
       IN IF NextLine.instruction = ""
          THEN /\ stdout' = Append(stdout,
                     Event("result", NextLine.id, rd + 1, "empty instruction", 0))
               /\ stop_flags' = flags
               /\ UNCHANGED << stop_events, global_stop_event, spc >>
               /\ TaskIdle
          ELSE /\ global_stop_event' = FALSE
               /\ IF IsStoppedIn(flags, NextLine.id)
                  THEN /\ stdout' = Append(stdout,
                             Event("result", NextLine.id, rd + 1, CANCELLED, 0))
                       /\ stop_flags' = flags \ {NextLine.id}
                       /\ stop_events' =
                             [x \in (DOMAIN events) \ {NextLine.id} |-> events[x]]
                       /\ UNCHANGED spc
                       /\ TaskIdle
                  ELSE /\ stop_flags' = flags
                       /\ stop_events' = events
                       /\ spc' = "run"
                       /\ task_line' = rd + 1
                       /\ plan' \in ServerPlans
                       /\ ctx_confirm' = NextLine.ctx
                       /\ ctx_step_results' = [present |-> FALSE, list |-> << >>]
                       /\ pc' = "start"
                       /\ lean' = TRUE
                       /\ step_results' = << >>
                       /\ overall_success' = TRUE
                       /\ i' = 0
                       /\ attempt' = 0
                       /\ current_step' = NoStep
                       /\ replaced' = FALSE
                       /\ last_result' = Failure("None")
                       /\ polls' = 0
                       /\ dispatched' = << >>
                       /\ exec_log' = << >>
                       /\ refl_log' = << >>
                       /\ gate_log' = {}
                       /\ stream' = << >>
                       /\ last_event_key' = NoKey
                       /\ UNCHANGED stdout
    /\ UNCHANGED auxVars

\* lines 244-271: agent.execute returned; the stop flag is looked at once more
ExecuteReturns ==
    /\ spc = "run"
    /\ pc = "done"
    /\ stdout' = Append(stdout,
          IF is_stopped(request_id)
          THEN Event("result", request_id, task_line, CANCELLED, Len(step_results))
          ELSE Event("result", request_id, task_line,
                     IF overall_success THEN "done" ELSE "failed", Len(step_results)))
    /\ Cleanup(request_id)
    /\ spc' = "read"
    /\ pc' = "idle"
    /\ UNCHANGED << plan, ctx_step_results, ctx_confirm, step_results, overall_success,
                    i, attempt, current_step, replaced, last_result, polls, lean,
                    global_stop_event, request_id, lines, rd, task_line, histVars,
                    emitVars >>
    /\ UNCHANGED auxVars

\* main.py lines 470-526 under server.py lines 244-271: the orchestrator raises
\* before the plan is run; execute emits an error event and returns the
\* "Critical Error" dict, traceback included, which the server writes as the result
CRITICAL_ERROR == "Critical Error"
ExecuteCritical ==
    /\ spc = "run"
    /\ pc = "start"
    /\ Emits(<< Raw("error", Data("", FALSE, "", NoIndex, "exception", TRUE)) >>)
    /\ stdout' = Append(stdout,
          IF is_stopped(request_id)
          THEN Event("result", request_id, task_line, CANCELLED, 0)
          ELSE [Event("result", request_id, task_line, CRITICAL_ERROR, 0)
                   EXCEPT !.traceback = TRUE])
    /\ Cleanup(request_id)
    /\ spc' = "read"
    /\ pc' = "idle"
    /\ UNCHANGED << plan, ctx_step_results, ctx_confirm, step_results, overall_success,
                    i, attempt, current_step, replaced, last_result, polls, lean,
                    global_stop_event, request_id, lines, rd, task_line, histVars >>
    /\ UNCHANGED auxVars

\* server.py lines 272-289: agent.execute raises (its wait for the embedding
\* model, line 470 of main.py, is outside every try); the handler writes a result
EXECUTE_EXCEPTION == "execute exception"

\* a faulty handler that writes no result when agent.execute raises (C14 rejects it)
ExecuteRaises_silent ==
    /\ spc = "run"
    /\ pc = "start"
    /\ Cleanup(request_id)
    /\ spc' = "read"
    /\ pc' = "idle"
    /\ UNCHANGED << plan, ctx_step_results, ctx_confirm, step_results, overall_success,
                    i, attempt, current_step, replaced, last_result, polls, lean,
                    global_stop_event, request_id, lines, rd, task_line, histVars,
                    emitVars, stdout >>
    /\ UNCHANGED auxVars

ExecuteRaises ==
    /\ spc = "run"
    /\ pc = "start"
    /\ stdout' = Append(stdout,
                        Event("result", request_id, task_line, EXECUTE_EXCEPTION, 0))
    /\ Cleanup(request_id)
    /\ spc' = "read"
    /\ pc' = "idle"
    /\ UNCHANGED << plan, ctx_step_results, ctx_confirm, step_results, overall_success,
                    i, attempt, current_step, replaced, last_result, polls, lean,
                    global_stop_event, request_id, lines, rd, task_line, histVars,
                    emitVars >>
    /\ UNCHANGED auxVars

ServerInit ==
    /\ plan = << >>
    /\ ctx_confirm = NoConfirmation
    /\ ctx_step_results = [present |-> FALSE, list |-> << >>]
    /\ pc = "idle"
    /\ lean = TRUE
    /\ FreshLocals
    /\ FreshHistory
    /\ stop_flags = {}
    /\ stop_events = << >>
    /\ global_stop_event = FALSE
    /\ request_id = ""
    /\ lines = << >>
    /\ rd = 0
    /\ stdout = << Event("ready", "", 0, "", 0) >>
    /\ spc = "read"
    /\ task_line = 0
    /\ stream = << >>
    /\ last_event_key = NoKey
    /\ AuxIdle

ServerNext ==
    \/ HostWrite
    \/ ReadBlankOrBad
    \/ ReadNotObject
    \/ ReadPing
    \/ ReadStop
    \/ ReadShutdown
    \/ ReadUnknown
    \/ ReadExecute
    \/ ExecuteReturns
    \/ ExecuteCritical
    \/ ExecuteRaises
    \/ (spc = "run" /\ PlanNext)

SpecServer == ServerInit /\ [][ServerNext]_vars

(***************************************************************************)
(* tools/memory_queue.py: ThreadSafeMemoryQueue.                           *)
(*                                                                         *)
(* SpecQueue : the module is imported, one queue is constructed, callers   *)
(*             enqueue tasks (numbered in the order of the calls), the     *)
(*             worker thread drains the queue, another process may hold    *)
(*             the lock on .memory_lock, and shutdown may be called.       *)
(***************************************************************************)
\* enqueue_save calls in one run
MaxTasks == 3

\* queue.Queue(): no maxsize is given, and maxsize <= 0 means no capacity
maxsize == 0

\* lines 20-28: fcntl (not Windows) or msvcrt (Windows) was imported, as it is on
\* every platform that has one of the two; FALSE is the ImportError branch
HAS_FLOCK == TRUE

\* put(task, block=False) raises queue.Full: only a queue with a maxsize is ever full
Full(q) == maxsize > 0 /\ Len(q) >= maxsize

\* the kernel does not run
KernelIdle ==
    /\ plan = << >>
    /\ ctx_confirm = NoConfirmation
    /\ ctx_step_results = [present |-> FALSE, list |-> << >>]
    /\ pc = "idle"
    /\ lean = TRUE
    /\ FreshLocals
    /\ FreshHistory
    /\ NoServer
    /\ stream = << >>
    /\ last_event_key = NoKey

QueueInit == KernelIdle /\ AuxIdle

\* import agent.tools.memory_queue: the annotation List[Dict] of enqueue_save
\* (line 143) names List, which line 14 does not import. An interpreter that
\* evaluates annotations when the def runs raises NameError and the class does
\* not exist; one that evaluates them lazily defines the class.
ImportModule ==
    /\ mq_module = "unloaded"
    /\ mq_module' \in {"failed", "loaded"}
    /\ UNCHANGED << mq_queue, mq_unfinished, mq_calls, mq_wpc, mq_task, mq_flock,
                    mq_writes, mq_stop, mq_shut, queueFrame >>

\* __init__ and _start_worker: the queue is empty and the worker thread runs
Construct ==
    /\ mq_module = "loaded"
    /\ mq_module' = "ready"
    /\ mq_queue' = << >>
    /\ mq_stop' = FALSE
    /\ mq_wpc' = "loop"
    /\ UNCHANGED << mq_unfinished, mq_calls, mq_task, mq_flock, mq_writes, mq_shut,
                    queueFrame >>

\* enqueue_save that takes the file lock before it puts the task
EnqueueSave_under_lock ==
    /\ mq_module = "ready"
    /\ Len(mq_calls) < MaxTasks
    /\ mq_flock = "free"
    /\ mq_calls' = Append(mq_calls,
          [task |-> Len(mq_calls) + 1, qlen |-> Len(mq_queue),
           held |-> mq_flock = "worker", dropped |-> FALSE])
    /\ mq_queue' = Append(mq_queue, Len(mq_calls) + 1)
    /\ mq_unfinished' = mq_unfinished + 1
    /\ UNCHANGED << mq_module, mq_wpc, mq_task, mq_flock, mq_writes, mq_stop, mq_shut,
                    queueFrame >>

\* enqueue_save, lines 165-169: put(task, block=False); on queue.Full the task is dropped with a
\* warning. The call record keeps what the call found: the length of the queue,
\* and whether the worker held the file lock.
EnqueueSave ==
    /\ mq_module = "ready"
    /\ Len(mq_calls) < MaxTasks
    /\ mq_calls' = Append(mq_calls,
          [task |-> Len(mq_calls) + 1, qlen |-> Len(mq_queue),
           held |-> mq_flock = "worker", dropped |-> Full(mq_queue)])
    /\ IF Full(mq_queue)
       THEN UNCHANGED << mq_queue, mq_unfinished >>
       ELSE /\ mq_queue' = Append(mq_queue, Len(mq_calls) + 1)
            /\ mq_unfinished' = mq_unfinished + 1
    /\ UNCHANGED << mq_module, mq_wpc, mq_task, mq_flock, mq_writes, mq_stop, mq_shut,
                    queueFrame >>

\* _worker_loop, line 76: while not self._stop_event.is_set()
WorkerLoop ==
    /\ mq_wpc = "loop"
    /\ mq_wpc' = IF mq_stop THEN "stopped" ELSE "get"
    /\ UNCHANGED << mq_module, mq_queue, mq_unfinished, mq_calls, mq_task, mq_flock,
                    mq_writes, mq_stop, mq_shut, queueFrame >>

\* _worker_loop that takes the newest task of the queue
WorkerGet_lifo ==
    /\ mq_wpc = "get"
    /\ IF mq_queue # << >>
       THEN /\ mq_task' = mq_queue[Len(mq_queue)]
            /\ mq_queue' = SubSeq(mq_queue, 1, Len(mq_queue) - 1)
            /\ mq_wpc' = "lock"
       ELSE /\ mq_wpc' = "loop"
            /\ UNCHANGED << mq_task, mq_queue >>
    /\ UNCHANGED << mq_module, mq_unfinished, mq_calls, mq_flock, mq_writes, mq_stop,
                    mq_shut, queueFrame >>

\* _worker_loop, lines 79-82: self.queue.get(timeout=1.0) gives the oldest task, or
\* raises queue.Empty after one second and the loop goes on
WorkerGet ==
    /\ mq_wpc = "get"
    /\ IF mq_queue # << >>
       THEN /\ mq_task' = Head(mq_queue)
            /\ mq_queue' = Tail(mq_queue)
            /\ mq_wpc' = "lock"
       ELSE /\ mq_wpc' = "loop"
            /\ UNCHANGED << mq_task, mq_queue >>
    /\ UNCHANGED << mq_module, mq_unfinished, mq_calls, mq_flock, mq_writes, mq_stop,
                    mq_shut, queueFrame >>

\* _process_task, lines 104-114: open the lock file and take the exclusive lock,
\* which waits until no other holder has it; without HAS_FLOCK nothing is taken
WorkerLockAcquire ==
    /\ mq_wpc = "lock"
    /\ IF HAS_FLOCK
       THEN mq_flock = "free" /\ mq_flock' = "worker"
       ELSE UNCHANGED mq_flock
    /\ mq_wpc' = "save"
    /\ UNCHANGED << mq_module, mq_queue, mq_unfinished, mq_calls, mq_task, mq_writes,
                    mq_stop, mq_shut, queueFrame >>

\* _process_task, lines 105-112 and 127-128: open or the locking call raises; the
\* except logs it and save_task_result is not called
WorkerLockRaises ==
    /\ mq_wpc = "lock"
    /\ HAS_FLOCK
    /\ mq_wpc' = "unlock"
    /\ UNCHANGED << mq_module, mq_queue, mq_unfinished, mq_calls, mq_task, mq_flock,
                    mq_writes, mq_stop, mq_shut, queueFrame >>

\* _process_task, lines 117-128: save_task_result returns or raises; a raise is
\* logged by the except
WorkerSave ==
    /\ mq_wpc = "save"
    /\ \E ok \in BOOLEAN :
          mq_writes' = Append(mq_writes,
             [task |-> mq_task, locked |-> mq_flock = "worker", ok |-> ok])
    /\ mq_wpc' = "unlock"
    /\ UNCHANGED << mq_module, mq_queue, mq_unfinished, mq_calls, mq_task, mq_flock,
                    mq_stop, mq_shut, queueFrame >>

\* the last write failed
LastWriteFailed ==
    /\ mq_writes # << >>
    /\ mq_writes[Len(mq_writes)].task = mq_task
    /\ ~ mq_writes[Len(mq_writes)].ok

\* the end of a task that keeps the lock after a failed write
WorkerUnlock_keeps_lock ==
    /\ mq_wpc = "unlock"
    /\ mq_flock' = IF mq_flock = "worker" /\ ~ LastWriteFailed THEN "free" ELSE mq_flock
    /\ mq_unfinished' = mq_unfinished - 1
    /\ mq_task' = 0
    /\ mq_wpc' = "loop"
    /\ UNCHANGED << mq_module, mq_queue, mq_calls, mq_writes, mq_stop, mq_shut,
                    queueFrame >>

\* _process_task, lines 129-141 (finally: unlock and close the lock file; the file
\* is closed at the latest when the local lock_file goes away), then
\* _worker_loop, lines 89-90 (finally: task_done)
WorkerUnlock ==
    /\ mq_wpc = "unlock"
    /\ mq_flock' = IF mq_flock = "worker" THEN "free" ELSE mq_flock
    /\ mq_unfinished' = mq_unfinished - 1
    /\ mq_task' = 0
    /\ mq_wpc' = "loop"
    /\ UNCHANGED << mq_module, mq_queue, mq_calls, mq_writes, mq_stop, mq_shut,
                    queueFrame >>

\* another process that uses .memory_lock takes the lock, and gives it back
OtherLock ==
    /\ mq_module = "ready"
    /\ mq_flock = "free"
    /\ mq_flock' = "other"
    /\ UNCHANGED << mq_module, mq_queue, mq_unfinished, mq_calls, mq_wpc, mq_task,
                    mq_writes, mq_stop, mq_shut, queueFrame >>

OtherUnlock ==
    /\ mq_flock = "other"
    /\ mq_flock' = "free"
    /\ UNCHANGED << mq_module, mq_queue, mq_unfinished, mq_calls, mq_wpc, mq_task,
                    mq_writes, mq_stop, mq_shut, queueFrame >>

\* shutdown(wait), lines 178-182: with wait, queue.join() first; then
\* self._stop_event.set()
ShutdownCall ==
    /\ mq_module = "ready"
    /\ mq_shut = "no"
    /\ \E wait \in BOOLEAN :
          IF wait
          THEN mq_shut' = "joining" /\ UNCHANGED mq_stop
          ELSE mq_shut' = "done" /\ mq_stop' = TRUE
    /\ UNCHANGED << mq_module, mq_queue, mq_unfinished, mq_calls, mq_wpc, mq_task,
                    mq_flock, mq_writes, queueFrame >>

\* queue.join() returns once every task put has had its task_done
ShutdownJoined ==
    /\ mq_shut = "joining"
    /\ mq_unfinished = 0
    /\ mq_shut' = "done"
    /\ mq_stop' = TRUE
    /\ UNCHANGED << mq_module, mq_queue, mq_unfinished, mq_calls, mq_wpc, mq_task,
                    mq_flock, mq_writes, queueFrame >>

WorkerNext ==
    \/ WorkerLoop
    \/ WorkerGet
    \/ WorkerLockAcquire
    \/ WorkerLockRaises
    \/ WorkerSave
    \/ WorkerUnlock

QueueNext ==
    \/ ImportModule
    \/ Construct
    \/ EnqueueSave
    \/ WorkerNext
    \/ OtherLock
    \/ OtherUnlock
    \/ ShutdownCall
    \/ ShutdownJoined

SpecQueue == QueueInit /\ [][QueueNext]_vars

\* the worker thread is scheduled, a lock that keeps coming free is granted to
\* the waiting worker, and the other process gives the lock back
SpecQueueLive ==
    /\ SpecQueue
    /\ WF_vars(WorkerLoop \/ WorkerGet \/ WorkerSave \/ WorkerUnlock)
    /\ SF_vars(WorkerLockAcquire)
    /\ WF_vars(OtherUnlock)

(***************************************************************************)
(* memory/structured_memory.py: the preferences table.  Every call opens   *)
(* its own connection and commits (_get_connection), so the rows live in   *)
(* the file and a new StructuredMemory on the same file sees them.         *)
(***************************************************************************)
PrefValues ==
    { JStrPlain("dark"), JStrJson(JInt), JStrJson(JNull), JInt, JTrue, JNull,
      JList(<< JStrPlain("dark") >>), JTuple(<< JStrPlain("dark") >>) }

\* set_preference, line 162: the text written to the value column
value_str(value) ==
    IF value.t \in {"str", "strjson"} THEN CharsOf(value) ELSE json_dumps(value)

\* get_preference, lines 175-186
get_preference(db, key, default) ==
    IF db[key] = NoRow
    THEN default
    ELSE IF json_fails(db[key]) THEN StrWith(db[key]) ELSE json_loads(db[key])

PrefsInit == KernelIdle /\ AuxIdle

\* StructuredMemory(db_path): _init_database creates the table if missing
OpenStore ==
    /\ ~ pf_open
    /\ pf_open' = TRUE
    /\ UNCHANGED << pf_db, pf_set, pf_got, prefsFrame >>

\* the process ends; the file stays
CloseStore ==
    /\ pf_open
    /\ pf_open' = FALSE
    /\ UNCHANGED << pf_db, pf_set, pf_got, prefsFrame >>

SetPreference ==
    /\ pf_open
    /\ \E key \in PrefKeys, value \in PrefValues :
          /\ pf_db' = [pf_db EXCEPT ![key] = value_str(value)]
          /\ pf_set' = [pf_set EXCEPT ![key] = value]
    /\ pf_got' = NoGet
    /\ UNCHANGED << pf_open, prefsFrame >>

GetPreference ==
    /\ pf_open
    /\ \E key \in PrefKeys :
          pf_got' = [key |-> key, value |-> get_preference(pf_db, key, JNull)]
    /\ UNCHANGED << pf_db, pf_open, pf_set, prefsFrame >>

PrefsNext == OpenStore \/ CloseStore \/ SetPreference \/ GetPreference

SpecPrefs == PrefsInit /\ [][PrefsNext]_vars

(***************************************************************************)
(* core/intent_router.py: IntentRouter.detect.  Scores are cosine          *)
(* similarities in hundredths; the encoder is outside the program, so the  *)
(* best similarity of every intent is an input.                            *)
(***************************************************************************)
\* intent_embeddings in registry order, lines 35-76 (three of the nine)
Intents == << "translate", "app_open", "app_close" >>
\* intent_metadata, lines 81-91
min_confidence == [translate |-> 65, app_open |-> 70, app_close |-> 80]
HasMinConfidence(intent) == intent \in DOMAIN min_confidence
\* detect(text, threshold=0.65), line 218
default_threshold == 65
penalty == 40
ScoreSet == {-20, 30, 65, 70, 100}
Max(a, b) == IF a >= b THEN a ELSE b

\* lines 258-282: the first intent with the strictly greatest max_score
RECURSIVE BestFrom(_, _, _, _)
BestFrom(scores, k, best_intent, best_score) ==
    IF k > Len(Intents)
    THEN [intent |-> best_intent, score |-> best_score]
    ELSE IF scores[k] > best_score
         THEN BestFrom(scores, k + 1, Intents[k], scores[k])
         ELSE BestFrom(scores, k + 1, best_intent, best_score)
Best(scores) == BestFrom(scores, 1, NoIntent, -100)

\* lines 284-303: the conflict penalty
Penalised(call) ==
    /\ Best(call.scores).intent \in {"app_open", "app_close"}
    /\ (call.has_file_keyword \/ call.has_absolute_path)
AdjustedScore(call) ==
    IF Penalised(call) THEN Best(call.scores).score - penalty ELSE Best(call.scores).score
\* line 306: best_score = max(0.0, best_score)
best_score_no_penalty(call) == Max(0, Best(call.scores).score)
best_score(call) == Max(0, AdjustedScore(call))

\* lines 311-312
dynamic_threshold(call) ==
    IF HasMinConfidence(Best(call.scores).intent)
    THEN min_confidence[Best(call.scores).intent]
    ELSE call.threshold

\* detect, lines 218-327
detect(call) ==
    IF call.early # "scored"
    THEN NoMatch
    ELSE IF best_score(call) >= dynamic_threshold(call)
         THEN [match |-> TRUE, intent_type |-> Best(call.scores).intent,
               confidence |-> best_score(call)]
         ELSE NoMatch

RouterInit == KernelIdle /\ AuxIdle

\* lines 229-254: the returns before scoring
DetectEarly ==
    /\ \E early \in {"empty text", "email keyword", "embeddings not ready", "encode failed"} :
          rt_in' = [NoCall EXCEPT !.early = early]
    /\ rt_out' = detect(rt_in')
    /\ UNCHANGED routerFrame

DetectScored ==
    /\ \E scores \in [1 .. Len(Intents) -> ScoreSet], kw \in BOOLEAN, ap \in BOOLEAN :
          rt_in' = [early |-> "scored", scores |-> scores, has_file_keyword |-> kw,
                    has_absolute_path |-> ap, threshold |-> default_threshold]
    /\ rt_out' = detect(rt_in')
    /\ UNCHANGED routerFrame

RouterNext == DetectEarly \/ DetectScored

SpecRouter == RouterInit /\ [][RouterNext]_vars

(***************************************************************************)
(* core/embedding_model.py: start_loading and _load_worker.  The callers   *)
(* take _model_lock around the test and the set of _is_loading; the loader *)
(* thread writes _model and _is_loading without the lock, so its writes    *)
(* interleave with the two reads of the test in line 55.                   *)
(***************************************************************************)
LoaderInit == KernelIdle /\ AuxIdle

\* a thread enters start_loading, line 52
StartLoadingCall(c) ==
    /\ ld_pc[c] = "idle"
    /\ ld_calls < MaxCalls
    /\ ld_calls' = ld_calls + 1
    /\ ld_pc' = [ld_pc EXCEPT ![c] = "acquire"]
    /\ UNCHANGED << ld_model, ld_is_loading, ld_ready, ld_lock, ld_loader, ld_started,
                    loaderFrame >>

\* line 54: with _model_lock
LockAcquire(c) ==
    /\ ld_pc[c] = "acquire"
    /\ ld_lock = 0
    /\ ld_lock' = c
    /\ ld_pc' = [ld_pc EXCEPT ![c] = "read_model"]
    /\ UNCHANGED << ld_model, ld_is_loading, ld_ready, ld_calls, ld_loader, ld_started,
                    loaderFrame >>

\* line 55, left operand: self._model is not None; line 56 returns
ReadModel(c) ==
    /\ ld_pc[c] = "read_model"
    /\ IF ld_model
       THEN /\ ld_pc' = [ld_pc EXCEPT ![c] = "idle"]
            /\ ld_lock' = 0
       ELSE /\ ld_pc' = [ld_pc EXCEPT ![c] = "read_is_loading"]
            /\ ld_lock' = ld_lock
    /\ UNCHANGED << ld_model, ld_is_loading, ld_ready, ld_calls, ld_loader, ld_started,
                    loaderFrame >>

\* line 55, right operand: self._is_loading; line 56 returns
ReadIsLoading(c) ==
    /\ ld_pc[c] = "read_is_loading"
    /\ IF ld_is_loading
       THEN /\ ld_pc' = [ld_pc EXCEPT ![c] = "idle"]
            /\ ld_lock' = 0
       ELSE /\ ld_pc' = [ld_pc EXCEPT ![c] = "set_is_loading"]
            /\ ld_lock' = ld_lock
    /\ UNCHANGED << ld_model, ld_is_loading, ld_ready, ld_calls, ld_loader, ld_started,
                    loaderFrame >>

\* line 57 and the end of the with block
SetIsLoading(c) ==
    /\ ld_pc[c] = "set_is_loading"
    /\ ld_is_loading' = TRUE
    /\ ld_lock' = 0
    /\ ld_pc' = [ld_pc EXCEPT ![c] = "thread_start"]
    /\ UNCHANGED << ld_model, ld_ready, ld_calls, ld_loader, ld_started, loaderFrame >>

\* lines 59-65: thread.start()
ThreadStart(c) ==
    /\ ld_pc[c] = "thread_start"
    /\ ld_loader' = Append(ld_loader, "load")
    /\ ld_started' = Append(ld_started, ld_model)
    /\ ld_pc' = [ld_pc EXCEPT ![c] = "idle"]
    /\ UNCHANGED << ld_model, ld_is_loading, ld_ready, ld_lock, ld_calls, loaderFrame >>

\* _load_worker, lines 69-86: self._model = self._load_model_with_retry(..)
LoadSucceeds(w) ==
    /\ w \in DOMAIN ld_loader
    /\ ld_loader[w] = "load"
    /\ ld_model' = TRUE
    /\ ld_loader' = [ld_loader EXCEPT ![w] = "finally"]
    /\ UNCHANGED << ld_is_loading, ld_ready, ld_lock, ld_pc, ld_calls, ld_started,
                    loaderFrame >>

\* lines 87-91: anything in the try block raises
LoadFails(w) ==
    /\ w \in DOMAIN ld_loader
    /\ ld_loader[w] = "load"
    /\ ld_loader' = [ld_loader EXCEPT ![w] = "finally"]
    /\ UNCHANGED << ld_model, ld_is_loading, ld_ready, ld_lock, ld_pc, ld_calls, ld_started,
                    loaderFrame >>

\* lines 92-94: the thread ends with them
LoadFinally(w) ==
    /\ w \in DOMAIN ld_loader
    /\ ld_loader[w] = "finally"
    /\ ld_ready' = TRUE
    /\ ld_is_loading' = FALSE
    /\ ld_loader' = [ld_loader EXCEPT ![w] = "done"]
    /\ UNCHANGED << ld_model, ld_lock, ld_pc, ld_calls, ld_started, loaderFrame >>

LoaderNext ==
    \/ \E c \in Callers :
          \/ StartLoadingCall(c)
          \/ LockAcquire(c)
          \/ ReadModel(c)
          \/ ReadIsLoading(c)
          \/ SetIsLoading(c)
          \/ ThreadStart(c)
    \/ \E w \in Loaders :
          \/ LoadSucceeds(w)
          \/ LoadFails(w)
          \/ LoadFinally(w)

SpecLoader == LoaderInit /\ [][LoaderNext]_vars

(***************************************************************************)
(* tools/path_validator.py: validate_path.  A path is the sequence of its  *)
(* components below the root; << >> is "/".                                *)
(***************************************************************************)
\* Path.home() and the working directory of the process
home == << "Users", "me" >>
Cwd == << "Users", "me", "work" >>
\* the symbolic links of the file system
Links ==
    { [from |-> << "tmp" >>, to |-> << "private", "tmp" >>],
      [from |-> << "Users", "me", "link" >>, to |-> << "etc" >>],
      [from |-> << "Users", "me", "loop" >>, to |-> << "Users", "me", "loop" >>] }
IsLink(p) == \E l \in Links : l.from = p
LinkTarget(p) == (CHOOSE l \in Links : l.from = p).to
MaxLinkHops == 3

Parent(p) == IF p = << >> THEN << >> ELSE SubSeq(p, 1, Len(p) - 1)

\* Path.resolve(): ".." steps up, a symbolic link is replaced by its target;
\* a loop of links raises (OSError or RuntimeError)
RECURSIVE ResolveFrom(_, _, _)
ResolveFrom(done, rest, hops) ==
    IF rest = << >>
    THEN [ok |-> TRUE, path |-> done]
    ELSE IF Head(rest) = ".."
         THEN ResolveFrom(Parent(done), Tail(rest), hops)
         ELSE IF IsLink(Append(done, Head(rest)))
              THEN IF hops = 0
                   THEN [ok |-> FALSE, path |-> << >>]
                   ELSE ResolveFrom(<< >>, LinkTarget(Append(done, Head(rest))) \o Tail(rest),
                                    hops - 1)
              ELSE ResolveFrom(Append(done, Head(rest)), Tail(rest), hops)
resolve(fp) == ResolveFrom(IF fp.abs THEN << >> ELSE Cwd, fp.parts, MaxLinkHops)

\* abs_path.relative_to(other) does not raise ValueError
relative_to(p, other) == Len(other) <= Len(p) /\ SubSeq(p, 1, Len(other)) = other

\* lines 63-72
forbidden_paths ==
    { << "System" >>, << "Library" >>, << "usr" >>, << "bin" >>, << "sbin" >>, << "etc" >>,
      << "var" >>, << "private" >> }

PathRaised == [raised |-> TRUE, path |-> << >>]
PathReturned(p) == [raised |-> FALSE, path |-> p]

\* validate_path, lines 16-89
validate_path(file_path, sandbox_path, allow_home) ==
    LET abs_path == resolve(file_path)
        sandbox_abs == resolve([abs |-> TRUE, parts |-> sandbox_path])
    IN  IF ~ abs_path.ok
        THEN PathRaised
        ELSE IF allow_home /\ relative_to(abs_path.path, home)
        THEN PathReturned(abs_path.path)
        ELSE IF relative_to(abs_path.path, sandbox_abs.path)
        THEN PathReturned(abs_path.path)
        ELSE IF \E f \in forbidden_paths : relative_to(abs_path.path, f)
        THEN PathRaised
        ELSE IF abs_path.path = << >>
        THEN PathRaised
        ELSE PathRaised

\* the arguments the executors pass
FilePaths ==
    { [abs |-> TRUE, parts |-> << >>],
      [abs |-> TRUE, parts |-> << "etc", "passwd" >>],
      [abs |-> TRUE, parts |-> << "usr", "bin" >>],
      [abs |-> TRUE, parts |-> << "var", "jarvis", "out.txt" >>],
      [abs |-> TRUE, parts |-> << "tmp", "out.txt" >>],
      [abs |-> TRUE, parts |-> << "opt", "data" >>],
      [abs |-> TRUE, parts |-> << "Users", "me", "notes.txt" >>],
      [abs |-> TRUE, parts |-> << "Users", "me", "..", "..", "etc", "passwd" >>],
      [abs |-> TRUE, parts |-> << "Users", "me", "link", "passwd" >>],
      [abs |-> TRUE, parts |-> << "Users", "me", "loop" >>],
      [abs |-> TRUE, parts |-> << "Users", "other", "notes.txt" >>],
      [abs |-> TRUE, parts |-> << "Users", "me", "sandbox", "out.txt" >>],
      [abs |-> FALSE, parts |-> << "out.txt" >>],
      [abs |-> FALSE, parts |-> << "..", "..", "..", "etc", "hosts" >>] }
SandboxPaths ==
    { << "Users", "me", "sandbox" >>, << "var", "jarvis" >>, << "tmp" >>, << "opt", "data" >> }

PathInit == KernelIdle /\ AuxIdle

ValidatePath ==
    /\ \E fp \in FilePaths, sb \in SandboxPaths, ah \in BOOLEAN :
          /\ pv_in' = [file_path |-> fp, sandbox_path |-> sb, allow_home |-> ah,
                       called |-> TRUE]
          /\ pv_out' = validate_path(fp, sb, ah)
    /\ UNCHANGED pathFrame

PathNext == ValidatePath

SpecPath == PathInit /\ [][PathNext]_vars

(***************************************************************************)
(* main.py: DeskJarvisAgent.execute with _try_intent_shortcut and          *)
(* _create_orchestrator.  The planner, the executors and the router's      *)
(* similarity are environment; what the router matched is an input.        *)
(***************************************************************************)
\* intent_router.py lines 81-91: intent_metadata, type and action
IntentTypes ==
    {"translate", "summarize", "polish", "screenshot", "volume_control",
     "brightness_control", "system_info", "app_open", "app_close"}
metadata_type(intent) ==
    CASE intent \in {"translate", "summarize", "polish"} -> "text_process"
      [] intent = "screenshot" -> "screenshot_desktop"
      [] intent \in {"volume_control", "brightness_control", "system_info"} -> "system_control"
      [] intent = "app_open" -> "open_app"
      [] intent = "app_close" -> "close_app"
      [] OTHER -> "unknown"
metadata_action(intent) ==
    CASE intent = "translate" -> "translate"
      [] intent = "summarize" -> "summarize"
      [] intent = "polish" -> "polish"
      [] intent = "screenshot" -> "screenshot"
      [] intent = "volume_control" -> "volume"
      [] intent = "brightness_control" -> "brightness"
      [] intent = "system_info" -> "sys_info"
      [] intent = "app_open" -> "open"
      [] intent = "app_close" -> "close"
      [] OTHER -> "unknown"

\* main.py lines 229-232
supported_intents ==
    {"screenshot", "volume_control", "brightness_control", "system_info", "app_open",
     "app_close"}

\* plan_executor.py lines 153-159: the types registered for system_tools
system_ops ==
    {"screenshot_desktop", "open_app", "close_app", "set_volume", "set_brightness",
     "get_system_info", "open_folder", "open_file", "text_process", "python_script",
     "python", "code_interpreter"}

\* system_tools.py lines 211-298: the types execute_step has a branch for
execute_step_types ==
    {"screenshot_desktop", "open_folder", "open_file", "list_files", "open_app",
     "close_app", "execute_python_script", "set_volume", "set_brightness",
     "send_notification", "clipboard_read", "clipboard_write", "keyboard_type",
     "keyboard_shortcut", "mouse_click", "mouse_move", "window_minimize",
     "window_maximize", "window_close", "speak", "get_system_info", "image_process",
     "download_latest_python_installer", "set_reminder", "list_reminders",
     "cancel_reminder", "create_workflow", "list_workflows", "delete_workflow",
     "get_task_history", "search_history", "add_favorite", "list_favorites",
     "remove_favorite", "text_process", "analyze_document", "run_applescript",
     "manage_calendar_event", "manage_reminder", "visual_assist"}

\* _try_intent_shortcut, lines 215-268: the step it builds, or NoShortcutStep for None
ShortcutStep(in) ==
    IF ~ in.ready \/ in.intent_type = "None" \/ in.intent_type \notin supported_intents
    THEN NoShortcutStep
    ELSE IF in.intent_type \in {"app_open", "app_close"}
         THEN IF in.app_name
              THEN [type |-> IF in.intent_type = "app_open" THEN "open_app" ELSE "close_app",
                    action |-> metadata_action(in.intent_type)]
              ELSE NoShortcutStep
         ELSE [type |-> metadata_type(in.intent_type),
               action |-> metadata_action(in.intent_type)]

\* what execute_plan can come back with for the one-step plan: a type without a
\* branch in execute_step fails (system_tools.py lines 299-331) unless the Reflector
\* replaces the step
ShortcutOutcomes(step) ==
    IF step.type \in execute_step_types
    THEN {"success", "failure", "raised"}
    ELSE {"unsupported type", "success", "raised"}

AgentInit == KernelIdle /\ AuxIdle

\* execute(user_instruction, ..), lines 312-471
ExecuteCall ==
    /\ ag_pc = "idle"
    /\ ag_calls < MaxExecutes
    /\ ag_calls' = ag_calls + 1
    /\ \E ready \in BOOLEAN, intent \in IntentTypes \cup {"None"}, app \in BOOLEAN :
          ag_in' = [ready |-> ready, intent_type |-> intent, app_name |-> app]
    /\ ag_pc' = "shortcut"
    /\ ag_step' = NoShortcutStep
    /\ ag_out' = "none"
    /\ UNCHANGED << ag_emit_context, agentFrame >>

\* _try_intent_shortcut up to line 275: None, or the step and _create_orchestrator
\* (line 170 sets _emit_context)
TryIntentShortcut ==
    /\ ag_pc = "shortcut"
    /\ IF ShortcutStep(ag_in) = NoShortcutStep
       THEN /\ ag_pc' = "normal"
            /\ UNCHANGED << ag_step, ag_emit_context >>
       ELSE /\ ag_step' = ShortcutStep(ag_in)
            /\ ag_emit_context' = "emit"
            /\ ag_pc' = "shortcut_plan"
    /\ UNCHANGED << ag_in, ag_out, ag_calls, agentFrame >>

\* line 276: execute_plan([step], ..); an exception is caught in line 278 and gives
\* None; a result dict is truthy and execute returns it in line 478
ShortcutPlan ==
    /\ ag_pc = "shortcut_plan"
    /\ \E out \in ShortcutOutcomes(ag_step) :
          IF out = "raised"
          THEN /\ ag_pc' = "normal"
               /\ UNCHANGED ag_out
          ELSE /\ ag_pc' = "idle"
               /\ ag_out' = out
    /\ UNCHANGED << ag_in, ag_step, ag_emit_context, ag_calls, agentFrame >>

\* lines 483-486: _create_orchestrator(emit)
NormalCreate ==
    /\ ag_pc = "normal"
    /\ ag_emit_context' = "emit"
    /\ ag_pc' = "run"
    /\ UNCHANGED << ag_in, ag_step, ag_out, ag_calls, agentFrame >>

\* lines 496-540: orchestrator.run returns or raises; the finally block
NormalRun ==
    /\ ag_pc = "run"
    /\ ag_out' \in {"success", "failure", "interrupted", "critical error"}
    /\ ag_emit_context' = "None"
    /\ ag_pc' = "idle"
    /\ UNCHANGED << ag_in, ag_step, ag_calls, agentFrame >>

AgentNext == ExecuteCall \/ TryIntentShortcut \/ ShortcutPlan \/ NormalCreate \/ NormalRun

SpecAgent == AgentInit /\ [][AgentNext]_vars

(***************************************************************************)
(* code_interpreter.py: CodeInterpreter.execute, reached from              *)
(* plan_executor._dispatch_execution (python_script, python) and from      *)
(* SystemTools._execute_python_script (execute_python_script).  A script   *)
(* is the three facts about its text that the checks read: whether one of  *)
(* DANGEROUS_PATTERNS matches it, whether it holds an import, attribute or *)
(* call of the auditor's forbidden sets, and whether ast.parse accepts it. *)
(***************************************************************************)
Scripts == [pattern : BOOLEAN, forbidden : BOOLEAN, parses : BOOLEAN]
ScriptStepTypes == {"execute_python_script", "python_script", "python"}

\* security_auditor.py lines 59-100: a SyntaxError is answered (True, ""),
\* a parsed tree is accepted when the walk finds no violation
audit(code) == IF ~ code.parses THEN TRUE ELSE ~ code.forbidden

\* code_interpreter.py lines 236-254: the regular expressions only
_check_security(code) == ~ code.pattern

\* code_interpreter.py lines 478-530: the quote, indentation and f-string
\* repairs leave the text alone or make it parse
_try_fix_error(code) == {code, [code EXCEPT !.parses = TRUE]}

\* code_interpreter.py lines 386-440: the interpreter subprocess; a text
\* that does not parse ends with a SyntaxError
_execute_code(code) == IF code.parses THEN {"success", "error"} ELSE {"error"}

ScriptInit == KernelIdle /\ AuxIdle

\* system_tools.py lines 1355-1412: execute is called with context=, a
\* keyword it does not have; the TypeError is caught and reported
ExecutePythonScript(script) ==
    /\ sc_pc = "idle"
    /\ sc_calls < MaxScripts
    /\ sc_type' = "execute_python_script"
    /\ sc_code' = script
    /\ sc_attempt' = 0
    /\ sc_out' = "type error"
    /\ sc_calls' = sc_calls + 1
    /\ UNCHANGED << sc_pc, sc_executed >>
    /\ UNCHANGED scriptFrame

\* plan_executor.py lines 539-553: executor.code_interpreter.execute(code)
DispatchPython(type, script) ==
    /\ sc_pc = "idle"
    /\ sc_calls < MaxScripts
    /\ type \in {"python_script", "python"}
    /\ sc_pc' = "security"
    /\ sc_type' = type
    /\ sc_code' = script
    /\ sc_attempt' = 0
    /\ sc_out' = "none"
    /\ sc_calls' = sc_calls + 1
    /\ UNCHANGED sc_executed
    /\ UNCHANGED scriptFrame

\* code_interpreter.py lines 128-135
SecurityCheck ==
    /\ sc_pc = "security"
    /\ IF _check_security(sc_code)
       THEN sc_pc' = "run" /\ sc_out' = sc_out
       ELSE sc_pc' = "idle" /\ sc_out' = "security failure"
    /\ UNCHANGED << sc_type, sc_code, sc_attempt, sc_executed, sc_calls >>
    /\ UNCHANGED scriptFrame

\* code_interpreter.py lines 155-172: one pass of the retry loop
RunAttempt ==
    /\ sc_pc = "run"
    /\ sc_executed' = sc_executed \cup {sc_code}
    /\ \E result \in _execute_code(sc_code) :
          IF result = "success"
          THEN /\ sc_pc' = "idle"
               /\ sc_out' = "success"
               /\ UNCHANGED << sc_code, sc_attempt >>
          ELSE IF sc_attempt < max_retries
               THEN /\ sc_attempt' = sc_attempt + 1
                    /\ sc_code' \in _try_fix_error(sc_code)
                    /\ UNCHANGED << sc_pc, sc_out >>
               ELSE /\ sc_pc' = "idle"
                    /\ sc_out' = "failure"
                    /\ UNCHANGED << sc_code, sc_attempt >>
    /\ UNCHANGED << sc_type, sc_calls >>
    /\ UNCHANGED scriptFrame

ScriptNext ==
    \/ \E script \in Scripts : ExecutePythonScript(script)
    \/ \E type \in ScriptStepTypes, script \in Scripts : DispatchPython(type, script)
    \/ SecurityCheck
    \/ RunAttempt

SpecScript == ScriptInit /\ [][ScriptNext]_vars

(***************************************************************************)
(* scheduler.py: Scheduler.  Time is in seconds, 0 being the moment the    *)
(* process calls get_scheduler; a reminder saved by an earlier run of the  *)
(* program has a trigger_time before or after that moment.  The loop runs  *)
(* in its own thread; add_reminder and cancel_reminder are called from the *)
(* thread that executes plan steps.  A Reminder object is shared by the    *)
(* dict and by the list the loop iterates over: sd_obj holds the objects,  *)
(* sd_keys the ids of the dict in insertion order.                         *)
(***************************************************************************)
HOUR == 3600
DAY == 86400
WEEK == 604800

Repeats == {"none", "hourly", "daily", "weekly"}

\* lines 24-31: Reminder.__init__, triggered is False
Reminder(trigger_time, repeat) ==
    [trigger_time |-> trigger_time, repeat |-> repeat, triggered |-> FALSE]

\* lines 218-225: timedelta added to trigger_time after a trigger
Period(repeat) ==
    CASE repeat = "daily" -> DAY
      [] repeat = "hourly" -> HOUR
      [] repeat = "weekly" -> WEEK
      [] OTHER -> 0

\* reminders.json as an earlier run left it (add_reminder of that run wrote
\* it): nothing, a one-shot reminder still ahead, a repeating reminder due
\* within its period, and repeating reminders more than one period behind
StoredFiles ==
    { << >>,
      << Reminder(2, "none") >>,
      << Reminder(-1, "hourly") >>,
      << Reminder(-(2 * HOUR), "hourly") >>,
      << Reminder(-(3 * DAY), "daily") >> }

\* seconds that pass from one `now` of the loop to the next: sleep(1) and
\* the time the tick took
Pauses == {1, 2}

\* delay_seconds of add_reminder; 0 stands for None
Delays == {0, 1, 2}

\* lines 84-91: _save_reminders, to_dict of every reminder of the dict
Saved(keys, obj) == [k \in DOMAIN keys |-> [id |-> keys[k], r |-> obj[keys[k]]]]

Without(keys, rid) == SelectSeq(keys, LAMBDA x : x # rid)

SchedulerInit == KernelIdle /\ AuxIdle

\* lines 273-279 with 57-82 and 186-197: get_scheduler constructs the
\* Scheduler, which loads the file (from_dict leaves triggered False, so
\* every stored reminder is loaded), and starts the loop thread
GetScheduler(file) ==
    /\ sd_pc = "none"
    /\ sd_pc' = "head"
    /\ sd_obj' = file
    /\ sd_keys' = [k \in DOMAIN file |-> k]
    /\ sd_file' = Saved(sd_keys', sd_obj')
    /\ UNCHANGED << sd_now, sd_tick_now, sd_snapshot, sd_triggered_ids, sd_fired,
                    sd_cancelled, sd_ticks, sd_calls >>
    /\ UNCHANGED schedulerFrame

\* lines 93-136: add_reminder as system_tools calls it (delay_seconds and
\* repeat); successive calls fall into different milliseconds, so the ids
\* differ: the model numbers them
AddReminder(delay, repeat) ==
    /\ sd_pc \notin {"none"}
    /\ sd_calls < MaxReminderCalls
    /\ sd_calls' = sd_calls + 1
    /\ IF delay # 0
       THEN LET rid == Len(sd_obj) + 1
            IN /\ sd_obj' = Append(sd_obj, Reminder(sd_now + delay, repeat))
               /\ sd_keys' = Append(sd_keys, rid)
               /\ sd_file' = Saved(sd_keys', sd_obj')
       ELSE UNCHANGED << sd_obj, sd_keys, sd_file >>
    /\ UNCHANGED << sd_pc, sd_now, sd_tick_now, sd_snapshot, sd_triggered_ids,
                    sd_fired, sd_cancelled, sd_ticks >>
    /\ UNCHANGED schedulerFrame

\* lines 138-144: cancel_reminder; sd_cancelled keeps the ids for which it
\* returned success
CancelReminder(rid) ==
    /\ sd_pc \notin {"none"}
    /\ sd_calls < MaxReminderCalls
    /\ sd_calls' = sd_calls + 1
    /\ IF \E k \in DOMAIN sd_keys : sd_keys[k] = rid
       THEN /\ sd_keys' = Without(sd_keys, rid)
            /\ sd_file' = Saved(sd_keys', sd_obj)
            /\ sd_cancelled' = sd_cancelled \cup {rid}
       ELSE UNCHANGED << sd_keys, sd_file, sd_cancelled >>
    /\ UNCHANGED << sd_pc, sd_now, sd_obj, sd_tick_now, sd_snapshot,
                    sd_triggered_ids, sd_fired, sd_ticks >>
    /\ UNCHANGED schedulerFrame

\* lines 207-211: a tick begins; now is read and list(self.reminders.items())
\* copies the dict
TickBegin ==
    /\ sd_pc = "head"
    /\ sd_ticks < MaxTicks
    /\ sd_ticks' = sd_ticks + 1
    /\ sd_tick_now' = sd_now
    /\ sd_snapshot' = sd_keys
    /\ sd_triggered_ids' = << >>
    /\ sd_pc' = "scan"
    /\ UNCHANGED << sd_now, sd_obj, sd_keys, sd_file, sd_fired, sd_cancelled, sd_calls >>
    /\ UNCHANGED schedulerFrame

\* lines 211-228: one pass of the for loop; sd_fired keeps every call of
\* _trigger_reminder: the reminder, the now of the tick, whether the id had
\* been cancelled by then, and the trigger_time the reminder has afterwards
ScanReminder ==
    /\ sd_pc = "scan"
    /\ sd_snapshot # << >>
    /\ sd_snapshot' = Tail(sd_snapshot)
    /\ LET rid == Head(sd_snapshot)
           reminder == sd_obj[rid]
           next == reminder.trigger_time + Period(reminder.repeat)
       IN IF reminder.triggered /\ reminder.repeat = "none"
          THEN UNCHANGED << sd_obj, sd_fired, sd_triggered_ids >>
          ELSE IF sd_tick_now >= reminder.trigger_time
               THEN /\ sd_fired' = Append(sd_fired,
                          [id |-> rid, at |-> sd_tick_now, tick |-> sd_ticks,
                           repeat |-> reminder.repeat,
                           cancelled |-> rid \in sd_cancelled, next |-> next])
                    /\ IF reminder.repeat # "none"
                       THEN /\ sd_obj' = [sd_obj EXCEPT ![rid].trigger_time = next]
                            /\ UNCHANGED sd_triggered_ids
                       ELSE /\ sd_obj' = [sd_obj EXCEPT ![rid].triggered = TRUE]
                            /\ sd_triggered_ids' = Append(sd_triggered_ids, rid)
               ELSE UNCHANGED << sd_obj, sd_fired, sd_triggered_ids >>
    /\ UNCHANGED << sd_pc, sd_now, sd_keys, sd_tick_now, sd_file, sd_cancelled,
                    sd_ticks, sd_calls >>
    /\ UNCHANGED schedulerFrame

\* lines 230-238: the triggered one-shot reminders leave the dict, the file
\* is written when there was one, and the loop sleeps
TickEnd ==
    /\ sd_pc = "scan"
    /\ sd_snapshot = << >>
    /\ sd_keys' = SelectSeq(sd_keys,
          LAMBDA x : ~ \E k \in DOMAIN sd_triggered_ids : sd_triggered_ids[k] = x)
    /\ sd_file' = IF sd_triggered_ids # << >> THEN Saved(sd_keys', sd_obj) ELSE sd_file
    /\ \E pause \in Pauses : sd_now' = sd_now + pause
    /\ sd_pc' = "head"
    /\ UNCHANGED << sd_obj, sd_tick_now, sd_snapshot, sd_triggered_ids, sd_fired,
                    sd_cancelled, sd_ticks, sd_calls >>
    /\ UNCHANGED schedulerFrame

ReminderIds == 1 .. (MaxReminderCalls + 1)

SchedulerNext ==
    \/ \E file \in StoredFiles : GetScheduler(file)
    \/ \E delay \in Delays, repeat \in Repeats : AddReminder(delay, repeat)
    \/ \E rid \in ReminderIds : CancelReminder(rid)
    \/ TickBegin
    \/ ScanReminder
    \/ TickEnd

SpecScheduler == SchedulerInit /\ [][SchedulerNext]_vars

(***************************************************************************)
(* Properties.                                                             *)
(***************************************************************************)
\* the stop lines the host wrote for a task while one of its steps was in flight
StopsDuring(task) ==
    {k \in DOMAIN lines :
        /\ task # 0
        /\ lines[k].cmd = "stop"
        /\ lines[k].during = task
        /\ lines[k].id = lines[task].id
        /\ lines[k].at > 0}

\* C1: once the host has issued stop(id) while a step of task id is in flight, no
\* plan step after that one is dispatched (the count of dispatched steps stays what
\* it was when the stop was written), and the result event of the task is the
\* cancelled one.
C1_StopEndsTask ==
    /\ \A k \in StopsDuring(task_line) : Len(dispatched) = lines[k].at
    /\ \A p \in DOMAIN stdout :
          (stdout[p].type = "result" /\ stdout[p].line # 0
             /\ StopsDuring(stdout[p].line) # {})
          => stdout[p].message = CANCELLED

\* C2: a ping or stop the host wrote while a task was running is answered (pong,
\* stop_ack) before the result event of that task is written.
C2_AnsweredBeforeResult ==
    \A p \in DOMAIN stdout :
        stdout[p].type = "result" =>
            \A k \in DOMAIN lines :
                (lines[k].cmd \in {"ping", "stop"} /\ lines[k].during = stdout[p].line
                   /\ lines[k].during # 0)
                => \E q \in 1 .. (p - 1) :
                      /\ stdout[q].line = k
                      /\ stdout[q].type \in {"pong", "stop_ack"}

\* C4: an affirmative confirmation the host sends for step i while the task waits
\* at the sensitive gate of step i is seen by the poll: the gate does not end with
\* "not confirmed".
C4_ConfirmationSeen ==
    \A g \in gate_log :
        (spc # "off" /\ g.why = "absent") =>
            ~ \E k \in DOMAIN lines :
                 /\ lines[k].cmd = "confirm"
                 /\ lines[k].during = task_line
                 /\ lines[k].id = lines[task_line].id
                 /\ lines[k].gate = g.i

InStep == pc \in {"attempt", "gate", "dispatch", "post"}

\* C3: a step whose description starts with [SENSITIVE] reaches an executor only
\* while context["_sensitive_confirmation_<i>"] holds an affirmative value; a gate
\* that finds the key absent after the wait, or finds it false, ends the step in
\* failure without any executor call for that attempt.
C3_SensitiveGate ==
    /\ \A k \in DOMAIN exec_log :
          exec_log[k].sensitive => exec_log[k].confirm = "true"
    /\ \A g \in gate_log :
          /\ ~ \E k \in DOMAIN exec_log :
                  exec_log[k].i = g.i /\ exec_log[k].attempt = g.attempt
          /\ pc = "done"
          /\ Len(step_results) = g.i + 1
          /\ ~ step_results[g.i + 1].result.success
          /\ ctx_confirm[g.i] # "true"

C3_Witness ==
    \E k \in DOMAIN exec_log : exec_log[k].sensitive /\ exec_log[k].confirm = "true"

\* C5: the steps of a plan are handed to _execute_step_with_retry in plan order
\* (0, 1, 2, ...), at most one is in flight, and after a step whose final result is
\* a failure no later step is dispatched.
C5_PlanOrder ==
    /\ \A k \in DOMAIN dispatched : dispatched[k] = k - 1
    /\ Len(dispatched) - Len(step_results) \in {0, 1}
    /\ \A k \in DOMAIN step_results :
          ~ step_results[k].result.success => Len(dispatched) = k

C5_Witness ==
    /\ pc = "done"
    /\ Len(step_results) = 2
    /\ ~ step_results[2].result.success
    /\ Len(plan) = 3

C7_NullIdNeverDispatched ==
    \A k \in DOMAIN exec_log : exec_log[k].unresolved = {}

\* C8: no executor is called with params that still hold a {{stepN.path}} token.
C8_NoLiteralToken ==
    \A k \in DOMAIN exec_log : TokensOf(exec_log[k].params) = {}

\* C9: while step i (0-based) is prepared, a token {{stepN.path}} yields data only
\* if 1 <= N <= i, and a step holding a token with any other N is not dispatched.
C9_OnlyEarlierSteps ==
    \A k \in DOMAIN exec_log :
        /\ exec_log[k].resolved \subseteq 1 .. exec_log[k].i
        /\ exec_log[k].unresolved \subseteq 1 .. exec_log[k].i

\* C10: after an executor returned a failure flagged is_config_error or
\* requires_user_action, the executor is not called again for the step, the
\* Reflector is not called, and the step ends with that result (with the cancelled
\* failure when the stop check that follows the call fires).
C10_ConfigErrorNoRetry ==
    \A k \in DOMAIN exec_log :
        LET e == exec_log[k] IN
        (~ e.raised /\ ~ e.result.success /\ (e.result.cfg \/ e.result.rua)) =>
            /\ k = Len(exec_log)
            /\ \A r \in DOMAIN refl_log : refl_log[r].attempt < e.attempt
            /\ pc \in {"post", "done"}
            /\ pc = "done" =>
                  /\ Len(step_results) = e.i + 1
                  /\ \/ step_results[e.i + 1].result = e.result
                     \/ /\ step_results[e.i + 1].result = Failure(CANCELLED)
                        /\ CheckStop

C10_Witness ==
    /\ pc = "done"
    /\ exec_log # << >>
    /\ exec_log[Len(exec_log)].result.rua
    /\ ~ exec_log[Len(exec_log)].result.cfg
    /\ ~ exec_log[Len(exec_log)].raised
    /\ step_results[Len(step_results)].result = exec_log[Len(exec_log)].result

\* C11: whatever the executors and the Reflector answer, the retry loop calls an
\* executor at most max_attempts times for a step (the calls carry the attempt
\* numbers in rising order, none above max_attempts), and a step that was handed
\* to the retry loop comes back with a result.
C11_BoundedRetry ==
    /\ [](/\ Len(exec_log) <= max_attempts
          /\ attempt <= max_attempts
          /\ \A k \in DOMAIN exec_log :
                /\ exec_log[k].attempt \in 1 .. max_attempts
                /\ \A j \in DOMAIN exec_log : j < k =>
                       exec_log[j].attempt < exec_log[k].attempt)
    /\ InStep ~> (pc \in {"loop", "done"} /\ Len(step_results) = Len(dispatched))

C11_Witness ==
    /\ pc = "done"
    /\ Len(exec_log) = max_attempts
    /\ Len(refl_log) = max_attempts - 1
    /\ Len(step_results) = Len(dispatched)

\* the step in hand comes back in this step of the program, with result r
Returns(r) ==
    /\ Len(step_results') = Len(step_results) + 1
    /\ step_results'[Len(step_results')].result = r

\* C12: once the stop signal has fired, the retry loop makes no further executor
\* attempt and no Reflector call and returns the cancelled failure: at the stop
\* checks before an attempt and after an executor call, and when the signal fires
\* while an executor call is in flight, that call is the last thing done for the
\* step before the cancelled failure comes back.
C12_StopEndsRetry ==
    [][/\ (CheckStop /\ pc \in {"attempt", "post"}) =>
            /\ Returns(Failure(CANCELLED))
            /\ exec_log' = exec_log
            /\ refl_log' = refl_log
       /\ (~ CheckStop /\ CheckStop' /\ exec_log' # exec_log) =>
            /\ refl_log' = refl_log
            /\ \/ pc' \in {"post", "attempt"}
               \/ Returns(Failure(CANCELLED))]_vars

\* execute_plan has ended because a stop check answered True: at the head of the
\* loop with steps left, or inside the step that came back last
StopObserved ==
    /\ pc = "done"
    /\ CheckStop
    /\ \/ i < Len(plan) /\ (step_results = << >>
                             \/ step_results[Len(step_results)].result.success)
       \/ /\ step_results # << >>
          /\ step_results[Len(step_results)].result = Failure(CANCELLED)

\* C13: a task that ends because its stop signal was observed returns a result
\* with success = false whose steps are the step_results accumulated so far (one
\* record for every step that was dispatched).
C13_CancelledResult ==
    StopObserved =>
        /\ ~ execute_plan_result.success
        /\ execute_plan_result.steps = step_results
        /\ Len(execute_plan_result.steps) = Len(dispatched)

\* the result events written for the execute command of stdin line k
ResultsFor(k) ==
    {p \in DOMAIN stdout : stdout[p].type = "result" /\ stdout[p].line = k}

Malformed(line) ==
    line.cmd \notin {"", "ping", "stop", "shutdown", "execute"}

\* C15: only shutdown ends the command loop, and every malformed or unrecognised
\* line that was read has its error event.
C15_LoopSurvives ==
    /\ spc = "exit" => lines[rd].cmd = "shutdown"
    /\ \A k \in 1 .. rd :
          Malformed(lines[k]) =>
             \E p \in DOMAIN stdout : stdout[p].type = "error" /\ stdout[p].line = k

\* the tuple the host can read off an event of the stream
KeyOf(event) ==
    << event.type, event.data.description, event.data.step_index >>

ThinkingEvents == {k \in DOMAIN stream : stream[k].type = "thinking"}

\* C16: no two consecutive events of a task's stream have the same
\* (mapped_type, description, step_index).
C16_NoConsecutiveDuplicate ==
    \A k \in DOMAIN stream :
       k < Len(stream) => KeyOf(stream[k]) # KeyOf(stream[k + 1])

\* a reflection was applied, which emits two thinking events in a row, and one
\* thinking event is in the stream
C16_Witness ==
    /\ replaced
    /\ Len(refl_log) = 1
    /\ Cardinality(ThinkingEvents) = 1
    /\ Len(stream) >= 3

\* C17: once an executor call has waited on the response file, the host's stream
\* holds the user_input_request event of that call.
C17_RequestReachesHost ==
    \A k \in DOMAIN exec_log :
       exec_log[k].polled =>
          \E e \in DOMAIN stream : stream[e].type = "user_input_request"

\* C18: no progress event, no error event and no result written to the host
\* carries a stack trace.
C18_NoStackTrace ==
    /\ \A k \in DOMAIN stream : ~ stream[k].data.traceback
    /\ \A p \in DOMAIN stdout : ~ stdout[p].traceback

EventsOfType(type) == {k \in DOMAIN stream : stream[k].type = type}

\* the task took the fast path and its one step succeeded at the first attempt
FastPathSucceeded ==
    /\ pc = "done"
    /\ Len(plan) = 1
    /\ overall_success
    /\ Len(exec_log) = 1
    /\ refl_log = << >>
    /\ stream # << >>
    /\ stream[1].type = "thinking"
    /\ stream[1].data.phase = "fast_path"

\* C19: the stream of a fast-path task whose step succeeds has exactly one
\* thinking event, of phase fast_path, exactly one executing event and exactly
\* one success event.
C19_FastPathStream ==
    FastPathSucceeded =>
       /\ EventsOfType("thinking") = {1}
       /\ Cardinality(EventsOfType("executing")) = 1
       /\ Cardinality(EventsOfType("success")) = 1

\* the events of the stream that follow the step_started event of step n
StepEvents(n) ==
    {k \in DOMAIN stream :
        \E b \in 1 .. k - 1 :
           stream[b].type = "executing" /\ stream[b].data.step_index = n}

\* the one step of the plan failed at attempt 1, the Reflector gave a retryable
\* modified step, and attempt 2 succeeded
RetriedOnce ==
    /\ pc = "done"
    /\ Len(plan) = 1
    /\ Len(exec_log) = 2
    /\ ~ exec_log[1].raised /\ ~ exec_log[1].result.success
    /\ ~ exec_log[2].raised /\ exec_log[2].result.success
    /\ Len(refl_log) = 1 /\ refl_log[1].why = "failure"
    /\ replaced
    /\ overall_success

\* C20: after a failure at attempt 1, a retryable modified step and a success at
\* attempt 2, the stream of the step has one error event, one thinking event and
\* one success event.
C20_RetryStream ==
    RetriedOnce =>
       /\ Cardinality(StepEvents(0) \cap EventsOfType("error")) = 1
       /\ Cardinality(StepEvents(0) \cap EventsOfType("thinking")) = 1
       /\ Cardinality(StepEvents(0) \cap EventsOfType("success")) = 1

\* step 2 of the plan is about to be dispatched with params.id still the token
\* {{step1.result.emails[0].id}}, and step_results[0].result.data is
\* {emails: [{id: X}]}, the result of step 1 of this plan
EmailIdDue ==
    /\ pc = "dispatch"
    /\ i = 1
    /\ ~ replaced
    /\ current_step = SWhole(<< 1 >>, "result.emails[0].id")
    /\ Len(ctx_step_results.list) = 1
    /\ ctx_step_results.list[1].result.success
    /\ ResultData(ctx_step_results.list[1]) = DEmails

\* C21: in that plan the dispatch of step 2 calls the executor with params.id = X,
\* the string at step_results[0].result.data.emails[0].id.
C21_EmailIdPassed ==
    [][(EmailIdDue /\ pc' # pc) =>
          /\ Len(exec_log') = Len(exec_log) + 1
          /\ exec_log'[Len(exec_log')].params = PDict("id" :> PStr(<< Lit("X") >>))]_vars

\* C22: enqueue_save can return whenever it is called, whatever the queue holds
\* and whatever the worker and the file lock are doing, and a call leaves the
\* file lock as it found it.
C22_EnqueueNeverWaits ==
    /\ []((mq_module = "ready" /\ Len(mq_calls) < MaxTasks) => ENABLED EnqueueSave)
    /\ [][Len(mq_calls') > Len(mq_calls) =>
             /\ mq_flock' = mq_flock
             /\ mq_wpc' = mq_wpc]_vars

\* a call returned while the worker held the file lock and the queue was not empty
C22_Witness ==
    \E c \in DOMAIN mq_calls :
       mq_calls[c].held /\ mq_calls[c].qlen >= 1 /\ ~ mq_calls[c].dropped

Accepted == {mq_calls[c].task : c \in {d \in DOMAIN mq_calls : ~ mq_calls[d].dropped}}
Waiting == {mq_queue[k] : k \in DOMAIN mq_queue}
Handled(t) == t \in Accepted /\ t \notin Waiting /\ t # mq_task

\* C24: after a write that failed the file lock is free again, no task is lost,
\* and every task that waits behind the failed one is still taken up by the
\* worker (as long as shutdown does not stop it).
C24_FailureIsDropped ==
    /\ [](mq_wpc \in {"loop", "get", "lock"} => mq_flock # "worker")
    /\ [](mq_unfinished = Cardinality(Waiting) + (IF mq_task # 0 THEN 1 ELSE 0))
    /\ \A t \in 1 .. MaxTasks :
          ((\E w \in DOMAIN mq_writes : ~ mq_writes[w].ok) /\ t \in Waiting)
             ~> (Handled(t) \/ mq_stop)

\* a write failed and a task enqueued later was written
C24_Witness ==
    \E a, b \in DOMAIN mq_writes :
       /\ a < b
       /\ ~ mq_writes[a].ok
       /\ mq_writes[b].ok
       /\ mq_wpc = "loop"
       /\ mq_flock = "free"

\* C25: the queue that was constructed has a capacity, never holds more than
\* that, and enqueue_save drops a task exactly when the queue is at its capacity.
C25_BoundedQueue ==
    mq_module = "ready" =>
       /\ maxsize > 0
       /\ Len(mq_queue) <= maxsize
       /\ \A c \in DOMAIN mq_calls : mq_calls[c].dropped <=> mq_calls[c].qlen >= maxsize


\* C26: a get_preference(k) that follows set_preference(k, v) with no later
\* write, in the same store or in one reopened on the same file, returns a
\* value equal to v.
C26_PreferenceRoundTrip ==
    (pf_got # NoGet /\ pf_set[pf_got.key] # NotSet) => pf_got.value = pf_set[pf_got.key]


\* C27: once scoring is reached, detect returns an IntentMatch for the
\* winning intent exactly when its score after the conflict penalty is at
\* least that intent's min_confidence (the default threshold when it has
\* none), and no match otherwise.
C27_ThresholdDecides ==
    rt_in.early = "scored" =>
       LET best == Best(rt_in.scores)
           adjusted == best.score - (IF Penalised(rt_in) THEN penalty ELSE 0)
           limit == IF HasMinConfidence(best.intent)
                    THEN min_confidence[best.intent]
                    ELSE rt_in.threshold
       IN  /\ rt_out.match <=> adjusted >= limit
           /\ rt_out.match => rt_out.intent_type = best.intent

\* a penalised application intent below its threshold, and an accepted match
C27_Witness ==
    /\ rt_in.early = "scored"
    /\ Penalised(rt_in)
    /\ Best(rt_in.scores).score >= min_confidence[Best(rt_in.scores).intent]
    /\ ~ rt_out.match


\* C28: start_loading is idempotent: whatever the number of calls and of
\* calling threads, at most one loader thread runs at any time, and no
\* loader thread is started once the model is loaded.
RunningLoaders == {w \in DOMAIN ld_loader : ld_loader[w] # "done"}
C28_OneLoader ==
    /\ Cardinality(RunningLoaders) <= 1
    /\ \A w \in DOMAIN ld_started : ~ ld_started[w]


\* C29: validate_path returns a path only if the path resolves inside the
\* user home (when allowed) or inside the sandbox, and resolves under none of
\* the denylisted roots, and is not the root; in every other case it raises.
C29_OnlySafePaths ==
    (pv_in.called /\ ~ pv_out.raised) =>
       /\ \/ pv_in.allow_home /\ relative_to(pv_out.path, home)
          \/ relative_to(pv_out.path, resolve([abs |-> TRUE, parts |-> pv_in.sandbox_path]).path)
       /\ \A f \in forbidden_paths : ~ relative_to(pv_out.path, f)
       /\ pv_out.path # << >>


\* C30: when the Reflector gives no usable verdict for a failed step (its
\* reply fails to parse, or it answers non-retryable, so that no modified
\* step is applied), the failure is terminal for the step: the step comes
\* back with the failed result and no further attempt is made.
C30_UnusableVerdictIsTerminal ==
    [][(/\ pc = "post"
        /\ Len(refl_log') = Len(refl_log) + 1
        /\ ~ replaced') =>
           /\ attempt' = attempt
           /\ pc' # "attempt"
           /\ Returns(last_result)]_vars


\* a string of the params carries a bracketed placeholder
RECURSIVE HasBracketed(_)
HasBracketed(value) ==
    IF value.t = "str"
    THEN \E n \in DOMAIN value.a : value.a[n] = Lit(BRACKETED)
    ELSE IF value.t \in {"dict", "list"}
         THEN \E key \in DOMAIN value.kids : HasBracketed(value.kids[key])
         ELSE FALSE

\* C31: a Reflector verdict whose modified_step params contain a bracketed
\* placeholder string is downgraded to non-retryable: such a step never
\* replaces the current step of the retry loop and is never handed to an
\* executor.
C31_BracketedNeverApplied ==
    /\ ~ (replaced /\ HasBracketed(current_step.params))
    /\ \A e \in DOMAIN exec_log : ~ HasBracketed(exec_log[e].params)

\* C32: a step of a known-bad file type (file_manager, FileManager,
\* file_operation) whose action does not mention delete is never dispatched
\* as file_delete.
C32_DeleteOnlyOnDelete ==
    [][(/\ pc = "dispatch"
        /\ Len(exec_log') = Len(exec_log) + 1
        /\ current_step.type \in {"file_manager", "FileManager", "file_operation"}
        /\ current_step.action # "delete") =>
           exec_log'[Len(exec_log')].type # "file_delete"]_vars

\* C33: steps are mutated only by the Reflector: no step of execute_plan
\* changes the type or the params of a plan step, the step in hand included
\* as long as the Reflector has not replaced it.
C33_PlanStepsUntouched ==
    [][/\ Len(plan') = Len(plan)
       /\ \A k \in DOMAIN plan :
             /\ plan'[k].type = plan[k].type
             /\ plan'[k].params = plan[k].params]_vars


\* C34: for every intent of the fast-path supported set, the single step
\* built on a match has a type that the executor it is routed to supports,
\* so a fast-path step never ends in an unsupported-type failure.
C34_FastPathTypeSupported ==
    /\ ag_step # NoShortcutStep => ag_step.type \in execute_step_types
    /\ ag_out # "unsupported type"

\* C35: whenever execute has returned or raised, on any path including the
\* fast path, the task-scoped emit context is None again.
C35_EmitContextCleared ==
    ag_pc = "idle" => ag_emit_context = "None"


\* C36: a script is handed to the interpreter only when the AST audit
\* accepts it; a script the audit rejects is never run.
C36_AuditedBeforeRun ==
    \A code \in sc_executed : audit(code)


\* C37: the stop-flag and stop-event maps hold entries only for the task that
\* is running: with no task running both are empty, and while a task runs they
\* hold no id but its own.
C37_StopMapsOnlyRunning ==
    \A id \in stop_flags \cup DOMAIN stop_events :
        spc = "run" /\ id = request_id


\* C38: every task that enqueue_save put into the queue is eventually taken out
\* by the worker, whenever it was enqueued, and a shutdown that waits for the
\* queue eventually returns.
C38_AcceptedEventuallyProcessed ==
    /\ \A t \in 1 .. MaxTasks :
          (\E k \in DOMAIN mq_queue : mq_queue[k] = t)
             ~> (\A k \in DOMAIN mq_queue : mq_queue[k] # t)
    /\ (mq_shut = "joining") ~> (mq_shut = "done")


\* C39: a reminder whose cancel_reminder call returned success is not
\* triggered afterwards, also when the cancel comes while a tick is running.
C39_CancelledNeverTriggered ==
    \A k \in DOMAIN sd_fired : ~ sd_fired[k].cancelled

\* C40: after a repeating reminder triggered, its new trigger_time is later
\* than the now of that tick, and two triggers of one repeating reminder are
\* at least its repeat period apart.
C40_OncePerPeriod ==
    /\ \A k \in DOMAIN sd_fired :
          sd_fired[k].repeat # "none" => sd_fired[k].next > sd_fired[k].at
    /\ \A j, k \in DOMAIN sd_fired :
          (j < k /\ sd_fired[j].id = sd_fired[k].id /\ sd_fired[k].repeat # "none")
             => sd_fired[k].at - sd_fired[j].at >= Period(sd_fired[k].repeat)

=============================================================================
